---- MODULE Spec2Model ----
(***************************************************************************)
(* A model of muleiwu/go-cache: the three cache variants (Memory, Redis,   *)
(* None) behind the gsr.Cacher capability set, the reflection-based        *)
(* assignment of a stored value to a destination, and the gob-based value  *)
(* codec the Redis variant routes values through.                          *)
(*                                                                         *)
(* Go values are modelled as boxed values [t, isnil, d]: t is the dynamic  *)
(* type's name (reflect.Type.String()), isnil says whether a value of a    *)
(* nilable kind is nil, d is the data (the int itself, the pointee of a    *)
(* non-nil pointer, the content of a non-nil slice or map).                *)
(***************************************************************************)
EXTENDS Integers, Sequences, FiniteSets, TLC

VARIABLES
    backend,          \* which variant the cache instance is: "memory", "redis", "none"
    mem,              \* Memory.cache: the in-process store, key -> item
    rds,              \* the remote store behind Redis.conn, key -> item
    now,              \* the clock
    last,             \* the call that has just returned to the caller, or NoCall
    procs,            \* the goroutines calling GetSet concurrently: where each is in its call
    concreteTypeToName, \* gob's process-wide registry: base type -> the name sent for it
    serializer,       \* Redis.serializer: "gob" (the default) or "json"
    registeredTypes   \* cache_value's registeredTypes: the type names claimed for registration

vars == <<backend, mem, rds, now, last, procs, concreteTypeToName, serializer,
         registeredTypes>>

----------------------------------------------------------------------------
(* Bounds of the model *)

\* the clock runs from 1 to MaxTime
MaxTime == 3
\* ttl arguments range over -1..MaxTTL
MaxTTL == 1

Keys == {"k1", "k2"}
TTLs == -1 .. MaxTTL
Instants == 0 .. MaxTime

----------------------------------------------------------------------------
(* Go types and values *)

IfaceT == "interface {}"
ConcreteTypes == {"int", "*int", "[]int"}
Types == ConcreteTypes \cup {IfaceT}

\* reflect.Kind of a type
Kind(t) ==
    CASE t = "int" -> "int"
      [] t = "*int" -> "ptr"
      [] t = "[]int" -> "slice"
      [] t = "map[string]int" -> "map"
      [] t = "User" -> "struct"
      [] t = "*User" -> "ptr"
      [] t = "chan int" -> "chan"
      [] t = IfaceT -> "interface"
      [] OTHER -> "invalid"

\* the untyped nil: an interface value holding nothing (value == nil in Go)
NilIface == [t |-> "<nil>", isnil |-> TRUE, d |-> 0]

Boxed(t, isnil, d) == [t |-> t, isnil |-> isnil, d |-> d]

\* the values of a concrete type, as they sit boxed in an interface
ValuesOfConcrete(t) ==
    CASE t = "int" -> {Boxed(t, FALSE, 1)}
      [] t = "*int" -> {Boxed(t, TRUE, 0)}
      [] t = "[]int" -> {Boxed(t, TRUE, 0)}
      [] t = "map[string]int" -> {Boxed(t, TRUE, 0)}
      [] OTHER -> {}

ConcreteValues == UNION {ValuesOfConcrete(t) : t \in ConcreteTypes}

\* everything a variable of static type t can hold; an interface variable holds
\* the untyped nil or any concrete value
ValuesOf(t) == IF t = IfaceT THEN ConcreteValues \cup {NilIface} ELSE ValuesOfConcrete(t)

\* everything that can be passed as a `value any` argument
AnyValues == ConcreteValues \cup {NilIface}

\* reflect.Zero(t), boxed
Zero(t) ==
    CASE t = "int" -> Boxed(t, FALSE, 0)
      [] t = "User" -> Boxed(t, FALSE, 0)
      [] t = IfaceT -> NilIface
      [] OTHER -> Boxed(t, TRUE, 0)

\* the kinds for which assignValue accepts a nil value
NilableKinds == {"ptr", "slice", "map", "chan", "func", "interface"}

----------------------------------------------------------------------------
(* Destinations: the `obj any` argument of Get and GetSet.                 *)
(*   form "ptr"    a non-nil pointer to a variable of static type st that  *)
(*                 currently holds cur                                     *)
(*   form "nil"    the untyped nil                                         *)
(*   form "nilptr" a nil pointer of type *st                               *)
(*   form "nonptr" a plain value cur of the non-pointer type st            *)

Obj(form, st, cur) == [form |-> form, st |-> st, cur |-> cur]
NoObj == Obj("none", "<nil>", NilIface)

\* what the caller's variable holds before the call: a value that is neither
\* the zero value nor (where the type has two values) every stored value
DestInit(t) ==
    CASE t = "int" -> Boxed(t, FALSE, 2)
      [] t = "*int" -> Boxed(t, FALSE, 1)
      [] t = "[]int" -> Boxed(t, FALSE, 1)
      [] t = "map[string]int" -> Boxed(t, FALSE, 1)
      [] t = "User" -> Boxed(t, FALSE, 2)
      [] t = "*User" -> Boxed(t, FALSE, 2)
      [] OTHER -> Boxed("int", FALSE, 2)

PtrObjs == {Obj("ptr", t, DestInit(t)) : t \in Types}
BadObjs == {Obj("nil", "<nil>", NilIface), Obj("nilptr", "int", NilIface),
            Obj("nonptr", "int", Boxed("int", FALSE, 2))}
Objs == PtrObjs \cup BadObjs

----------------------------------------------------------------------------
(* Errors *)

Ok == "nil"
ErrKeyNotExists == "key not exists"
ErrObjNil == "obj cannot be nil"
ErrObjNotPtr == "obj must be a pointer"
ErrObjCannotSet == "obj cannot be set"
ErrNilAssign == "cannot assign nil to non-pointer type"
ErrTypeMismatch == "type mismatch"
ErrNotImplemented == "not implemented"
ErrCallback == "callback error"
ErrRedisNil == "redis: nil"
ErrTransport == "transport error"
ErrGobEncode == "gob encode error"
ErrJsonEncode == "json encode error"
ErrJsonDecode == "json decode error"
Panic == "panic"

Res(err, obj) == [err |-> err, obj |-> obj]

----------------------------------------------------------------------------
(* Memory.assignValue: assign a stored value to the destination *)

\* an assignValue that asks whether the value can be assigned (an interface
\* destination takes any value) instead of whether the types are equal
AssignValueIfAssignable(obj, value) ==
    IF obj.form = "nil" THEN Res(ErrObjNil, obj)
    ELSE IF obj.form = "nonptr" THEN Res(ErrObjNotPtr, obj)
    ELSE IF obj.form = "nilptr" THEN Res(ErrObjCannotSet, obj)
    ELSE IF value = NilIface THEN
        IF Kind(obj.st) \in NilableKinds
        THEN Res(Ok, Obj(obj.form, obj.st, Zero(obj.st)))
        ELSE Res(ErrNilAssign, obj)
    ELSE IF obj.st # value.t /\ obj.st # IfaceT THEN Res(ErrTypeMismatch, obj)
    ELSE Res(Ok, Obj(obj.form, obj.st, value))

\* an assignValue that writes the destination before it compares the types
AssignValueWritesFirst(obj, value) ==
    IF obj.form = "nil" THEN Res(ErrObjNil, obj)
    ELSE IF obj.form = "nonptr" THEN Res(ErrObjNotPtr, obj)
    ELSE IF obj.form = "nilptr" THEN Res(ErrObjCannotSet, obj)
    ELSE IF value = NilIface THEN
        IF Kind(obj.st) \in NilableKinds
        THEN Res(Ok, Obj(obj.form, obj.st, Zero(obj.st)))
        ELSE Res(ErrNilAssign, obj)
    ELSE IF obj.st # value.t THEN Res(ErrTypeMismatch, Obj(obj.form, obj.st, value))
    ELSE Res(Ok, Obj(obj.form, obj.st, value))

\* an assignValue that reports success without writing the destination
AssignValueLeavesDest(obj, value) == Res(Ok, obj)

AssignValue(obj, value) ==
    IF obj.form = "nil" THEN Res(ErrObjNil, obj)
    ELSE IF obj.form = "nonptr" THEN Res(ErrObjNotPtr, obj)
    ELSE IF obj.form = "nilptr" THEN Res(ErrObjCannotSet, obj)
    ELSE IF value = NilIface THEN
        IF Kind(obj.st) \in NilableKinds
        THEN Res(Ok, Obj(obj.form, obj.st, Zero(obj.st)))
        ELSE Res(ErrNilAssign, obj)
    ELSE IF obj.st # value.t THEN Res(ErrTypeMismatch, obj)
    ELSE Res(Ok, Obj(obj.form, obj.st, value))

----------------------------------------------------------------------------
(* The in-process expiring store (patrickmn/go-cache) as Memory uses it.   *)
(* An item is [val, exp]; exp = 0 means it never expires.                  *)

Absent == [present |-> FALSE, val |-> NilIface, exp |-> 0]
Item(val, exp) == [present |-> TRUE, val |-> val, exp |-> exp]

\* NewMemory(defaultExpiration, cleanupInterval): the store's default expiration
DefaultExpiration == 2

\* a cache.Get that finds an expired item for as long as the janitor has not
\* removed it
CacheFoundUntilCleanup(c, key, t) == c[key].present

\* cache.Get: found unless absent or expired
CacheFound(c, key, t) == c[key].present /\ (c[key].exp = 0 \/ t <= c[key].exp)

\* a cache.Set that keeps the item an earlier writer has stored
CacheSetKeepsEarlier(c, key, value, d, t) ==
    IF c[key].present THEN c
    ELSE [c EXCEPT ![key] = Item(value, IF d = 0 THEN t + DefaultExpiration
                                         ELSE IF d > 0 THEN t + d ELSE 0)]

\* cache.Set(key, value, d): d = 0 takes the default, d > 0 expires at now + d,
\* a negative d never expires
CacheSet(c, key, value, d, t) ==
    LET dd == IF d = 0 THEN DefaultExpiration ELSE d
        e == IF dd > 0 THEN t + dd ELSE 0
    IN [c EXCEPT ![key] = Item(value, e)]

\* a cache.Delete that empties the store, as cache.Flush does
CacheDeleteFlushes(c, key) == [k \in Keys |-> Absent]

\* cache.Delete
CacheDelete(c, key) == [c EXCEPT ![key] = Absent]

\* the janitor's DeleteExpired
CacheDeleteExpired(c, t) ==
    [k \in Keys |-> IF c[k].present /\ c[k].exp > 0 /\ t > c[k].exp THEN Absent ELSE c[k]]

----------------------------------------------------------------------------
(* The record of a call as its caller sees it, kept until the caller goes  *)
(* on: the operation and its arguments (key; val, the value given to Set;  *)
(* arg, the ttl or instant given to Set, ExpiresIn, ExpiresAt), the error  *)
(* returned (Exists' answer is in found), GetSet's lookup error (lk), the  *)
(* number of times the callback ran (cb) and what it returned (cberr), the *)
(* destination before (obj0) and after (obj), and the keys whose entry the *)
(* call changed.                                                           *)

Call(op, key, val, arg, err, found, lk, cb, cberr, obj0, obj, changed) ==
    [op |-> op, key |-> key, val |-> val, arg |-> arg, err |-> err, found |-> found,
     lk |-> lk, cb |-> cb, cberr |-> cberr, obj0 |-> obj0, obj |-> obj,
     changed |-> changed, failed |-> FALSE]

\* a call of the Redis variant: failed says that the transport failed the one
\* command the call sent, or would have failed it had the call sent one
OnTransport(call, fail) == [call EXCEPT !.failed = fail]

NoCall == Call("none", "k1", NilIface, 0, Ok, FALSE, Ok, 0, Ok, NoObj, NoObj, {})

\* a call without destination and callback
PlainCall(op, key, val, arg, err, changed) ==
    Call(op, key, val, arg, err, FALSE, Ok, 0, Ok, NoObj, NoObj, changed)

\* a call of ExpiresAt or ExpiresIn; found says whether the key was there when
\* the call was made
ExpireCall(op, key, arg, found, err, changed) ==
    Call(op, key, NilIface, arg, err, found, Ok, 0, Ok, NoObj, NoObj, changed)

\* a call of Get
GetCall(key, obj0, r) ==
    Call("Get", key, NilIface, 0, r.err, FALSE, Ok, 0, Ok, obj0, r.obj, {})

\* a call of GetSet
GetSetCall(key, obj0, r, changed) ==
    Call("GetSet", key, NilIface, 0, r.err, FALSE, r.lk, r.cb, r.cberr, obj0, r.obj, changed)

\* the keys whose entry differs between two stores
Changed(c1, c2) == {k \in Keys : c1[k] # c2[k]}

\* the caller is between two calls
Idle == last = NoCall

\* the outcome of a call that may write: error, destination, store
Out(err, obj, store) == [err |-> err, obj |-> obj, store |-> store]

\* the outcome of GetSet: error, lookup error, callback invocations, the
\* callback's error, destination, store
GsOut(err, lk, cb, cberr, obj, store) ==
    [err |-> err, lk |-> lk, cb |-> cb, cberr |-> cberr, obj |-> obj, store |-> store]

\* the callback of GetSet: it fails, or populates the destination in place
\* (it can write only through a non-nil pointer)
Callback(obj, cbErr, cbVal) ==
    IF cbErr THEN Res(ErrCallback, obj)
    ELSE IF obj.form = "ptr" THEN Res(Ok, Obj(obj.form, obj.st, cbVal))
    ELSE Res(Ok, obj)

\* what a callback can do with a destination: <<fails, value left>>
CbOutcomes(obj) ==
    {<<TRUE, obj.cur>>} \cup
    {<<FALSE, v>> : v \in (IF obj.form = "ptr" THEN ValuesOf(obj.st) ELSE {obj.cur})}

\* GetSet's objValue.Interface() after the optional Elem(): a zero reflect.Value
\* (from the untyped nil, or from Elem() of a nil pointer) panics
InterfacePanics(obj) == obj.form \in {"nil", "nilptr"}

\* a GetSet that leaves out the Elem() step and stores the pointer it was given
StoredPointerOf(obj) == Boxed("*" \o obj.st, FALSE, 1)

\* GetSet's value to store, objValue.Interface(): the pointee of a pointer (for
\* an interface-typed pointee, the value the interface holds), else obj itself
StoredValueOf(obj) == obj.cur

\* a GetSet that goes on to the callback whatever the lookup returned
GetSetIgnoresLookup(lookupErr) == FALSE

\* a GetSet that goes on to the callback only when the key is absent
GetSetMissOnlyWhenAbsent(lookupErr) == lookupErr \notin {"key not exists", "redis: nil"}

\* GetSet's branch on the lookup: a hit returns, anything else goes on
GetSetHit(lookupErr) == lookupErr = Ok

----------------------------------------------------------------------------
(* Memory *)

\* Memory.Exists
MemoryExists(c, key, t) == CacheFound(c, key, t)

\* Memory.Get
MemoryGet(c, key, obj, t) ==
    IF ~CacheFound(c, key, t) THEN Res(ErrKeyNotExists, obj)
    ELSE AssignValue(obj, c[key].val)

\* a Memory.Set that takes a nil pointer, slice or map for "no value" and
\* removes the key
MemorySetDropsNil(c, key, value, ttl, t) ==
    IF value.isnil THEN Out(Ok, NoObj, CacheDelete(c, key))
    ELSE Out(Ok, NoObj, CacheSet(c, key, value, IF ttl <= 0 THEN -1 ELSE ttl, t))

\* a Memory.Set that hands a non-positive ttl to the store as a deadline
\* relative to now, so that the entry is written already expired
MemorySetExpiresNonPositive(c, key, value, ttl, t) ==
    IF ttl <= 0 THEN Out(Ok, NoObj, [c EXCEPT ![key] = Item(value, t + ttl)])
    ELSE Out(Ok, NoObj, CacheSet(c, key, value, ttl, t))

\* Memory.Set
MemorySet(c, key, value, ttl, t) ==
    Out(Ok, NoObj, CacheSet(c, key, value, IF ttl <= 0 THEN -1 ELSE ttl, t))

\* a Memory.GetSet that returns what the callback loaded without storing it
MemoryGetSetNoStore(c, key, ttl, obj, cbErr, cbVal, t) ==
    LET g == MemoryGet(c, key, obj, t)
        f == Callback(obj, cbErr, cbVal)
    IN IF GetSetHit(g.err) THEN GsOut(Ok, g.err, 0, Ok, g.obj, c)
       ELSE IF f.err # Ok THEN GsOut(f.err, g.err, 1, f.err, f.obj, c)
       ELSE GsOut(Ok, g.err, 1, Ok, f.obj, c)

\* a Memory.GetSet that stores the entry again, with its own ttl, on a hit
MemoryGetSetRefreshes(c, key, ttl, obj, cbErr, cbVal, t) ==
    LET g == MemoryGet(c, key, obj, t)
        f == Callback(obj, cbErr, cbVal)
        o == IF GetSetHit(g.err) THEN g.obj ELSE f.obj
    IN IF ~GetSetHit(g.err) /\ f.err # Ok THEN GsOut(f.err, g.err, 1, f.err, f.obj, c)
       ELSE IF InterfacePanics(o) THEN GsOut(Panic, g.err, 1, Ok, o, c)
       ELSE GsOut(Ok, g.err, IF GetSetHit(g.err) THEN 0 ELSE 1, Ok, o,
                  MemorySet(c, key, StoredValueOf(o), ttl, t).store)

\* Memory.GetSet
MemoryGetSet(c, key, ttl, obj, cbErr, cbVal, t) ==
    LET g == MemoryGet(c, key, obj, t)
        f == Callback(obj, cbErr, cbVal)
    IN IF GetSetHit(g.err) THEN GsOut(Ok, g.err, 0, Ok, g.obj, c)
       ELSE IF f.err # Ok THEN GsOut(f.err, g.err, 1, f.err, f.obj, c)
       ELSE IF InterfacePanics(f.obj) THEN GsOut(Panic, g.err, 1, Ok, f.obj, c)
       ELSE LET w == MemorySet(c, key, StoredValueOf(f.obj), ttl, t)
            IN GsOut(w.err, g.err, 1, Ok, f.obj, w.store)

\* a Memory.Del that returns nil and leaves the entry where it is
MemoryDelKeepsEntry(c, key) == Out(Ok, NoObj, c)

\* Memory.Del
MemoryDel(c, key) == Out(Ok, NoObj, CacheDelete(c, key))

\* a Memory.ExpiresAt that hands the store whatever time.Until returned, a
\* negative duration too
MemoryExpiresAtAnyTtl(c, key, expiresAt, t) ==
    IF ~CacheFound(c, key, t) THEN Out(ErrKeyNotExists, NoObj, c)
    ELSE Out(Ok, NoObj, CacheSet(c, key, c[key].val, expiresAt - t, t))

\* a Memory.ExpiresAt that stores the untyped nil in the value's place
MemoryExpiresAtDropsValue(c, key, expiresAt, t) ==
    IF ~CacheFound(c, key, t) THEN Out(ErrKeyNotExists, NoObj, c)
    ELSE IF expiresAt - t < 0 THEN Out(Ok, NoObj, CacheDelete(c, key))
    ELSE Out(Ok, NoObj, CacheSet(c, key, NilIface, expiresAt - t, t))

\* Memory.ExpiresAt
MemoryExpiresAt(c, key, expiresAt, t) ==
    IF ~CacheFound(c, key, t) THEN Out(ErrKeyNotExists, NoObj, c)
    ELSE IF expiresAt - t < 0 THEN Out(Ok, NoObj, CacheDelete(c, key))
    ELSE Out(Ok, NoObj, CacheSet(c, key, c[key].val, expiresAt - t, t))

\* a Memory.ExpiresIn that stores what the lookup returned without looking at
\* its found flag
MemoryExpiresInUnchecked(c, key, ttl, t) ==
    Out(Ok, NoObj, CacheSet(c, key, c[key].val, ttl, t))

\* a Memory.ExpiresIn that deletes the key when the duration is 0 or less, as
\* ExpiresAt does for a past instant
MemoryExpiresInDeletesNonPositive(c, key, ttl, t) ==
    IF ~CacheFound(c, key, t) THEN Out(ErrKeyNotExists, NoObj, c)
    ELSE IF ttl <= 0 THEN Out(Ok, NoObj, CacheDelete(c, key))
    ELSE Out(Ok, NoObj, CacheSet(c, key, c[key].val, ttl, t))

\* Memory.ExpiresIn
MemoryExpiresIn(c, key, ttl, t) ==
    IF ~CacheFound(c, key, t) THEN Out(ErrKeyNotExists, NoObj, c)
    ELSE Out(Ok, NoObj, CacheSet(c, key, c[key].val, ttl, t))

DoMemoryExists(key) ==
    /\ backend = "memory" /\ Idle
    /\ last' = Call("Exists", key, NilIface, 0, Ok, MemoryExists(mem, key, now),
                    Ok, 0, Ok, NoObj, NoObj, {})
    /\ UNCHANGED <<procs, backend, serializer, concreteTypeToName, registeredTypes, mem, rds, now>>

DoMemoryGet(key, obj) ==
    /\ backend = "memory" /\ Idle
    /\ last' = GetCall(key, obj, MemoryGet(mem, key, obj, now))
    /\ UNCHANGED <<procs, backend, serializer, concreteTypeToName, registeredTypes, mem, rds, now>>

DoMemorySet(key, value, ttl) ==
    /\ backend = "memory" /\ Idle
    /\ LET r == MemorySet(mem, key, value, ttl, now)
       IN /\ mem' = r.store
          /\ last' = PlainCall("Set", key, value, ttl, r.err, Changed(mem, r.store))
    /\ UNCHANGED <<procs, backend, serializer, concreteTypeToName, registeredTypes, rds, now>>

DoMemoryGetSet(key, ttl, obj, cbErr, cbVal) ==
    /\ backend = "memory" /\ Idle
    /\ LET r == MemoryGetSet(mem, key, ttl, obj, cbErr, cbVal, now)
       IN /\ mem' = r.store
          /\ last' = GetSetCall(key, obj, r, Changed(mem, r.store))
    /\ UNCHANGED <<procs, backend, serializer, concreteTypeToName, registeredTypes, rds, now>>

DoMemoryDel(key) ==
    /\ backend = "memory" /\ Idle
    /\ LET r == MemoryDel(mem, key)
       IN /\ mem' = r.store
          /\ last' = PlainCall("Del", key, NilIface, 0, r.err, Changed(mem, r.store))
    /\ UNCHANGED <<procs, backend, serializer, concreteTypeToName, registeredTypes, rds, now>>

DoMemoryExpiresAt(key, expiresAt) ==
    /\ backend = "memory" /\ Idle
    /\ LET r == MemoryExpiresAt(mem, key, expiresAt, now)
       IN /\ mem' = r.store
          /\ last' = ExpireCall("ExpiresAt", key, expiresAt, MemoryExists(mem, key, now),
                                r.err, Changed(mem, r.store))
    /\ UNCHANGED <<procs, backend, serializer, concreteTypeToName, registeredTypes, rds, now>>

DoMemoryExpiresIn(key, ttl) ==
    /\ backend = "memory" /\ Idle
    /\ LET r == MemoryExpiresIn(mem, key, ttl, now)
       IN /\ mem' = r.store
          /\ last' = ExpireCall("ExpiresIn", key, ttl, MemoryExists(mem, key, now),
                                r.err, Changed(mem, r.store))
    /\ UNCHANGED <<procs, backend, serializer, concreteTypeToName, registeredTypes, rds, now>>

\* the store's background cleanup (cleanupInterval)
Janitor ==
    /\ backend = "memory"
    /\ mem' = CacheDeleteExpired(mem, now)
    /\ mem' # mem
    /\ UNCHANGED <<procs, backend, serializer, concreteTypeToName, registeredTypes, rds, now, last>>

----------------------------------------------------------------------------
(* None: it holds nothing, so every operation is given the (empty) stores  *)
(* only to hand them back.                                                 *)

\* None.Exists
NoneExists(key) == FALSE

\* None.Get
NoneGet(key, obj) == Res(ErrNotImplemented, obj)

\* a None.Set that keeps the value
NoneSetKeeps(c, key, value, ttl) == Out(Ok, NoObj, CacheSet(c, key, value, -1, 0))

\* None.Set
NoneSet(c, key, value, ttl) == Out(Ok, NoObj, c)

\* a None.GetSet that runs the callback before it gives up
NoneGetSetLoads(c, key, ttl, obj, cbErr, cbVal) ==
    LET f == Callback(obj, cbErr, cbVal)
    IN GsOut(ErrNotImplemented, Ok, 1, f.err, f.obj, c)

\* None.GetSet
NoneGetSet(c, key, ttl, obj, cbErr, cbVal) ==
    GsOut(ErrNotImplemented, Ok, 0, Ok, obj, c)

\* None.Del
NoneDel(c, key) == Out(Ok, NoObj, c)

\* None.ExpiresAt
NoneExpiresAt(c, key, expiresAt) == Out(Ok, NoObj, c)

\* None.ExpiresIn
NoneExpiresIn(c, key, ttl) == Out(Ok, NoObj, c)

DoNoneExists(key) ==
    /\ backend = "none" /\ Idle
    /\ last' = Call("Exists", key, NilIface, 0, Ok, NoneExists(key),
                    Ok, 0, Ok, NoObj, NoObj, {})
    /\ UNCHANGED <<procs, backend, serializer, concreteTypeToName, registeredTypes, mem, rds, now>>

DoNoneGet(key, obj) ==
    /\ backend = "none" /\ Idle
    /\ last' = GetCall(key, obj, NoneGet(key, obj))
    /\ UNCHANGED <<procs, backend, serializer, concreteTypeToName, registeredTypes, mem, rds, now>>

DoNoneSet(key, value, ttl) ==
    /\ backend = "none" /\ Idle
    /\ LET r == NoneSet(mem, key, value, ttl)
       IN /\ mem' = r.store
          /\ last' = PlainCall("Set", key, value, ttl, r.err, Changed(mem, r.store))
    /\ UNCHANGED <<procs, backend, serializer, concreteTypeToName, registeredTypes, rds, now>>

DoNoneGetSet(key, ttl, obj, cbErr, cbVal) ==
    /\ backend = "none" /\ Idle
    /\ LET r == NoneGetSet(mem, key, ttl, obj, cbErr, cbVal)
       IN /\ mem' = r.store
          /\ last' = GetSetCall(key, obj, r, Changed(mem, r.store))
    /\ UNCHANGED <<procs, backend, serializer, concreteTypeToName, registeredTypes, rds, now>>

DoNoneDel(key) ==
    /\ backend = "none" /\ Idle
    /\ LET r == NoneDel(mem, key)
       IN /\ mem' = r.store
          /\ last' = PlainCall("Del", key, NilIface, 0, r.err, Changed(mem, r.store))
    /\ UNCHANGED <<procs, backend, serializer, concreteTypeToName, registeredTypes, rds, now>>

DoNoneExpiresAt(key, expiresAt) ==
    /\ backend = "none" /\ Idle
    /\ LET r == NoneExpiresAt(mem, key, expiresAt)
       IN /\ mem' = r.store
          /\ last' = PlainCall("ExpiresAt", key, NilIface, expiresAt, r.err,
                               Changed(mem, r.store))
    /\ UNCHANGED <<procs, backend, serializer, concreteTypeToName, registeredTypes, rds, now>>

DoNoneExpiresIn(key, ttl) ==
    /\ backend = "none" /\ Idle
    /\ LET r == NoneExpiresIn(mem, key, ttl)
       IN /\ mem' = r.store
          /\ last' = PlainCall("ExpiresIn", key, NilIface, ttl, r.err,
                               Changed(mem, r.store))
    /\ UNCHANGED <<procs, backend, serializer, concreteTypeToName, registeredTypes, rds, now>>

----------------------------------------------------------------------------
(* cache_value: the gob codec.  Encoded bytes are modelled by what gob     *)
(* puts on the wire for an interface{} slot: the registered name of the    *)
(* concrete type and its data; a nil interface is sent with an empty name; *)
(* the nil marker is a *nilValueMarker carrying the original type's name.  *)

NilMarkerBytes(typeName) == [kind |-> "nilValueMarker", tname |-> typeName, d |-> 0]
ValueBytes(t, d) == [kind |-> "value", tname |-> t, d |-> d]
NoBytes == [kind |-> "none", tname |-> "<nil>", d |-> 0]

Enc(err, bytes) == [err |-> err, bytes |-> bytes]

\* gob keys its registry by the base type, the type with its pointers removed
Base(t) ==
    CASE t = "*int" -> "int"
      [] t = "*User" -> "User"
      [] OTHER -> t

BaseTypes == {"int", "[]int", "map[string]int", "User", "chan int"}

\* gob's registerBasics: the basic types and their slices start registered
\* under their own names; "" stands for a base type not registered yet
RegisterBasics == [b \in BaseTypes |-> IF b \in {"int", "[]int"} THEN b ELSE ""]

\* gob.Register(value) under the recover of registerTypeIfNeeded: the first name
\* registered for a base type stays; registering the base type under another
\* name (T after *T, or *T after T) panics, and the panic is swallowed
GobRegister(reg, t) ==
    IF reg[Base(t)] = "" THEN [reg EXCEPT ![Base(t)] = t] ELSE reg

\* registerTypeIfNeeded
RegisterTypeIfNeeded(reg, value) ==
    IF value = NilIface THEN reg ELSE GobRegister(reg, value.t)

\* Encode takes the marker path, which registers nothing
EncodesNilMarker(value) ==
    value # NilIface /\ Kind(value.t) \in {"ptr", "slice", "map"} /\ value.isnil

\* the registry once Encode(value) has returned
RegistryAfterEncode(reg, value) ==
    IF EncodesNilMarker(value) THEN reg ELSE RegisterTypeIfNeeded(reg, value)

\* registeredTypes once Encode(value) has returned: the LoadOrStore of
\* registerTypeIfNeeded has put the value's type name there
TypesAfterEncode(types, value) ==
    IF EncodesNilMarker(value) \/ value = NilIface THEN types ELSE types \cup {value.t}

\* the type name gob sends for an interface value: the name its base type is
\* registered under; the empty name for the nil interface
GobTypeName(reg, value) ==
    IF value = NilIface THEN "<nil>" ELSE reg[Base(value.t)]

\* an Encode without the nil marker: gob refuses a nil pointer inside an
\* interface
EncodeWithoutNilMarker(value) ==
    IF value # NilIface /\ Kind(value.t) \in {"ptr", "chan", "func"} /\ value.isnil
    THEN Enc(ErrGobEncode, NoBytes)
    ELSE Enc(Ok, ValueBytes(value.t, value.d))

\* cache_value.Encode: a nil pointer, slice or map becomes the nil marker; gob
\* has no encoding for channels and functions
Encode(value) ==
    IF EncodesNilMarker(value)
    THEN Enc(Ok, NilMarkerBytes(value.t))
    ELSE IF value # NilIface /\ Kind(value.t) \in {"chan", "func"}
    THEN Enc(ErrGobEncode, NoBytes)
    ELSE Enc(Ok, ValueBytes(GobTypeName(RegistryAfterEncode(concreteTypeToName, value), value),
                            value.d))

\* gob's Decoder.Decode into `var value interface{}`: the empty name gives the
\* nil interface; any other name gives a fresh value of the type registered
\* under it, and a slice of length 0 is left as the nil slice it was allocated
GobDecode(data) ==
    IF data.tname = "<nil>" THEN NilIface
    ELSE IF Kind(data.tname) = "slice" /\ data.d = 0 THEN Boxed(data.tname, TRUE, 0)
    ELSE Boxed(data.tname, FALSE, data.d)

\* cache_value.assignValue (Decode has checked obj already)
CvAssignValue(obj, value) ==
    IF obj.form = "nilptr" THEN Res(ErrObjCannotSet, obj)
    ELSE IF value = NilIface THEN
        IF Kind(obj.st) \in NilableKinds
        THEN Res(Ok, Obj(obj.form, obj.st, Zero(obj.st)))
        ELSE Res(ErrNilAssign, obj)
    ELSE IF obj.st # value.t THEN Res(ErrTypeMismatch, obj)
    ELSE Res(Ok, Obj(obj.form, obj.st, value))

\* a Decode that goes straight to decoding and assigning: reflect panics on
\* the Elem() of what is not a pointer
DecodeUncheckedObj(data, obj) ==
    IF obj.form \in {"nil", "nonptr"} THEN Res(Panic, obj)
    ELSE CvAssignValue(obj, GobDecode(data))

\* cache_value.Decode
Decode(data, obj) ==
    IF obj.form = "nil" THEN Res(ErrObjNil, obj)
    ELSE IF obj.form = "nonptr" THEN Res(ErrObjNotPtr, obj)
    ELSE IF data.kind = "nilValueMarker" THEN CvAssignValue(obj, NilIface)
    ELSE CvAssignValue(obj, GobDecode(data))

----------------------------------------------------------------------------
(* The JSON serializer.  Its bytes are the marshalled jsonWrapper: is_nil,  *)
(* type_name (omitted, "" here, when empty) and value (omitted when nil).   *)
(* A JSON value is its shape and its content d; the shapes are number,      *)
(* array, and two kinds of object: "struct", whose keys are User's fields,  *)
(* and "map", whose keys are a map's keys (none of them a field of User).   *)

NoJson == [shape |-> "absent", d |-> 0]
JsonValue(shape, d) == [shape |-> shape, d |-> d]
JsonBytes(isNil, typeName, value) ==
    [kind |-> "json", is_nil |-> isNil, type_name |-> typeName, value |-> value]

\* what json.Marshal writes for a value of type t: pointers are followed
JsonShape(t) ==
    CASE Kind(Base(t)) = "int" -> "number"
      [] Kind(Base(t)) = "struct" -> "struct"
      [] Kind(Base(t)) = "map" -> "map"
      [] Kind(Base(t)) = "slice" -> "array"
      [] OTHER -> "unsupported"

\* the type json.Unmarshal gives a value it decodes into an interface{}
JsonGenericType(shape) ==
    CASE shape = "number" -> "float64"
      [] shape = "array" -> "[]interface {}"
      [] OTHER -> "map[string]interface {}"   \* both kinds of object

\* a JsonSerializer.Encode that fills TypeName for every value that has a type
JsonEncodeTagsEveryValue(value) ==
    IF value = NilIface THEN Enc(Ok, JsonBytes(TRUE, "", NoJson))
    ELSE IF Kind(value.t) \in {"ptr", "slice", "map"} /\ value.isnil
    THEN Enc(Ok, JsonBytes(TRUE, value.t, NoJson))
    ELSE IF JsonShape(value.t) = "unsupported" THEN Enc(ErrJsonEncode, NoBytes)
    ELSE Enc(Ok, JsonBytes(FALSE, value.t, JsonValue(JsonShape(value.t), value.d)))

\* JsonSerializer.Encode
JsonEncode(value) ==
    IF value = NilIface THEN Enc(Ok, JsonBytes(TRUE, "", NoJson))
    ELSE IF Kind(value.t) \in {"ptr", "slice", "map"} /\ value.isnil
    THEN Enc(Ok, JsonBytes(TRUE, value.t, NoJson))
    ELSE IF JsonShape(value.t) = "unsupported" THEN Enc(ErrJsonEncode, NoBytes)
    ELSE Enc(Ok, JsonBytes(FALSE, "", JsonValue(JsonShape(value.t), value.d)))

\* a map destination after json.Unmarshal has added an object's entries to
\* it: a nil map is allocated, an existing map keeps the entries it had
JsonMapFilled(obj, d) ==
    Obj(obj.form, obj.st,
        Boxed(obj.st, FALSE, (IF obj.cur.isnil THEN 0 ELSE obj.cur.d) + d))

\* json.Unmarshal(valueData, obj) for a non-nil pointer obj.  Any JSON value
\* fills an interface{}; a number fills an int, an array a slice, a struct's
\* object a struct (through a pointer too); an object fills a map with its
\* entries, and fails on the string field when the object is a User and the
\* map's values are ints; a map's object has no key for a struct's fields and
\* leaves it alone; any other pairing is an error that changes nothing
JsonUnmarshal(value, obj) ==
    LET into == JsonShape(obj.st)
    IN IF Kind(obj.st) = "interface"
       THEN Res(Ok, Obj(obj.form, obj.st,
                        Boxed(JsonGenericType(value.shape), FALSE, value.d)))
       ELSE IF into = "map" /\ value.shape = "map" THEN Res(Ok, JsonMapFilled(obj, value.d))
       ELSE IF into = "map" /\ value.shape = "struct"
       THEN Res(ErrJsonDecode, JsonMapFilled(obj, value.d))
       ELSE IF into = "struct" /\ value.shape = "map" THEN Res(Ok, obj)
       ELSE IF into = value.shape
       THEN Res(Ok, Obj(obj.form, obj.st, Boxed(obj.st, FALSE, value.d)))
       ELSE Res(ErrJsonDecode, obj)

\* a JsonSerializer.Decode that zeroes whatever the destination is when the
\* wrapper says is_nil, without asking whether its kind can be nil
JsonDecodeZeroesAnyKind(data, obj) ==
    IF obj.form = "nil" THEN Res(ErrObjNil, obj)
    ELSE IF obj.form = "nonptr" THEN Res(ErrObjNotPtr, obj)
    ELSE IF data.kind # "json" THEN Res(ErrJsonDecode, obj)
    ELSE IF data.is_nil THEN
        IF obj.form = "nilptr" THEN Res(ErrObjCannotSet, obj)
        ELSE Res(Ok, Obj(obj.form, obj.st, Zero(obj.st)))
    ELSE IF obj.form = "nilptr" THEN Res(ErrJsonDecode, obj)
    ELSE JsonUnmarshal(data.value, obj)

\* JsonSerializer.Decode
JsonDecode(data, obj) ==
    IF obj.form = "nil" THEN Res(ErrObjNil, obj)
    ELSE IF obj.form = "nonptr" THEN Res(ErrObjNotPtr, obj)
    ELSE IF data.kind # "json" THEN Res(ErrJsonDecode, obj)
    ELSE IF data.is_nil THEN
        IF obj.form = "nilptr" THEN Res(ErrObjCannotSet, obj)
        ELSE IF Kind(obj.st) \in NilableKinds
        THEN Res(Ok, Obj(obj.form, obj.st, Zero(obj.st)))
        ELSE Res(ErrNilAssign, obj)
    ELSE IF obj.form = "nilptr" THEN Res(ErrJsonDecode, obj)
    ELSE JsonUnmarshal(data.value, obj)

\* c.serializer.Encode(value)
SerializerEncode(value) ==
    IF serializer = "json" THEN JsonEncode(value) ELSE Encode(value)

\* c.serializer.Decode(data, obj)
SerializerDecode(data, obj) ==
    IF serializer = "json" THEN JsonDecode(data, obj) ELSE Decode(data, obj)

\* gob's registry once c.serializer.Encode(value) has returned
RegistryAfterSerializer(reg, value) ==
    IF serializer = "json" THEN reg ELSE RegistryAfterEncode(reg, value)

\* registeredTypes once c.serializer.Encode(value) has returned
TypesAfterSerializer(types, value) ==
    IF serializer = "json" THEN types ELSE TypesAfterEncode(types, value)

----------------------------------------------------------------------------
(* Redis.  An item of the remote store is [val, exp] with val the encoded  *)
(* bytes; exp = 0 means no expiry, and a key is gone once now >= exp.      *)
(* Every command can fail in the transport; a failed command is not        *)
(* applied.                                                                *)

RAbsent == [present |-> FALSE, val |-> NoBytes, exp |-> 0]
RItem(val, exp) == [present |-> TRUE, val |-> val, exp |-> exp]

\* the server's view of a key
RFound(r, key, t) == r[key].present /\ (r[key].exp = 0 \/ t < r[key].exp)

\* SET key value [EX ttl]: ttl = 0 sets no expiry
RSet(r, key, val, ttl, t) ==
    [r EXCEPT ![key] = RItem(val, IF ttl = 0 THEN 0 ELSE t + ttl)]

\* EXPIREAT key at (EXPIRE key ttl is EXPIREAT key now+ttl): no effect on a
\* missing key; an instant that is not in the future deletes the key
RExpireAt(r, key, at, t) ==
    IF ~RFound(r, key, t) THEN r
    ELSE IF at <= t THEN [r EXCEPT ![key] = RAbsent]
    ELSE [r EXCEPT ![key].exp = at]

\* DEL key
RDel(r, key) == [r EXCEPT ![key] = RAbsent]


\* Redis.Exists
RedisExists(r, key, t, fail) == IF fail THEN FALSE ELSE RFound(r, key, t)

\* Redis.Get
RedisGet(r, key, obj, t, fail) ==
    IF fail THEN Res(ErrTransport, obj)
    ELSE IF ~RFound(r, key, t) THEN Res(ErrRedisNil, obj)
    ELSE SerializerDecode(r[key].val, obj)

\* a Redis.Set that maps a non-positive ttl to the shortest expiry instead of
\* the no-expiry sentinel 0
RedisSetShortestExpiry(r, key, value, ttl, t, fail) ==
    LET e == SerializerEncode(value)
    IN IF e.err # Ok THEN Out(e.err, NoObj, r)
       ELSE IF fail THEN Out(ErrTransport, NoObj, r)
       ELSE Out(Ok, NoObj, RSet(r, key, e.bytes, IF ttl <= 0 THEN 1 ELSE ttl, t))

\* a Redis.Set that issues SET with whatever Encode returned and reports the
\* encode error afterwards
RedisSetWritesThenReports(r, key, value, ttl, t, fail) ==
    LET e == SerializerEncode(value)
    IN IF fail THEN Out(ErrTransport, NoObj, r)
       ELSE Out(e.err, NoObj, RSet(r, key, e.bytes, IF ttl <= 0 THEN 0 ELSE ttl, t))

\* Redis.Set
RedisSet(r, key, value, ttl, t, fail) ==
    LET e == SerializerEncode(value)
    IN IF e.err # Ok THEN Out(e.err, NoObj, r)
       ELSE IF fail THEN Out(ErrTransport, NoObj, r)
       ELSE Out(Ok, NoObj, RSet(r, key, e.bytes, IF ttl <= 0 THEN 0 ELSE ttl, t))

\* a Redis.GetSet that stores the destination before it looks at the
\* callback's error
RedisGetSetStoresFirst(r, key, ttl, obj, cbErr, cbVal, t, failGet, failSet) ==
    LET g == RedisGet(r, key, obj, t, failGet)
        f == Callback(obj, cbErr, cbVal)
    IN IF GetSetHit(g.err) THEN GsOut(Ok, g.err, 0, Ok, g.obj, r)
       ELSE IF InterfacePanics(f.obj) THEN GsOut(Panic, g.err, 1, f.err, f.obj, r)
       ELSE LET w == RedisSet(r, key, StoredValueOf(f.obj), ttl, t, failSet)
            IN IF f.err # Ok THEN GsOut(f.err, g.err, 1, f.err, f.obj, w.store)
               ELSE GsOut(w.err, g.err, 1, Ok, f.obj, w.store)

\* Redis.GetSet
RedisGetSet(r, key, ttl, obj, cbErr, cbVal, t, failGet, failSet) ==
    LET g == RedisGet(r, key, obj, t, failGet)
        f == Callback(obj, cbErr, cbVal)
    IN IF GetSetHit(g.err) THEN GsOut(Ok, g.err, 0, Ok, g.obj, r)
       ELSE IF f.err # Ok THEN GsOut(f.err, g.err, 1, f.err, f.obj, r)
       ELSE IF InterfacePanics(f.obj) THEN GsOut(Panic, g.err, 1, Ok, f.obj, r)
       ELSE LET w == RedisSet(r, key, StoredValueOf(f.obj), ttl, t, failSet)
            IN GsOut(w.err, g.err, 1, Ok, f.obj, w.store)

\* a Redis.Del that sends DEL again when the transport failed the first one
RedisDelRetries(r, key, fail) == Out(Ok, NoObj, RDel(r, key))

\* Redis.Del
RedisDel(r, key, fail) ==
    IF fail THEN Out(ErrTransport, NoObj, r) ELSE Out(Ok, NoObj, RDel(r, key))

\* Redis.ExpiresAt
RedisExpiresAt(r, key, expiresAt, t, fail) ==
    IF fail THEN Out(ErrTransport, NoObj, r)
    ELSE Out(Ok, NoObj, RExpireAt(r, key, expiresAt, t))

\* Redis.ExpiresIn
RedisExpiresIn(r, key, ttl, t, fail) ==
    IF fail THEN Out(ErrTransport, NoObj, r)
    ELSE Out(Ok, NoObj, RExpireAt(r, key, t + ttl, t))

DoRedisExists(key, fail) ==
    /\ backend = "redis" /\ Idle
    /\ last' = OnTransport(Call("Exists", key, NilIface, 0, Ok,
                                 RedisExists(rds, key, now, fail),
                                 Ok, 0, Ok, NoObj, NoObj, {}), fail)
    /\ UNCHANGED <<procs, backend, serializer, concreteTypeToName, registeredTypes, mem, rds, now>>

DoRedisGet(key, obj, fail) ==
    /\ backend = "redis" /\ Idle
    /\ last' = OnTransport(GetCall(key, obj, RedisGet(rds, key, obj, now, fail)), fail)
    /\ UNCHANGED <<procs, backend, serializer, concreteTypeToName, registeredTypes, mem, rds, now>>

DoRedisSet(key, value, ttl, fail) ==
    /\ backend = "redis" /\ Idle
    /\ LET r == RedisSet(rds, key, value, ttl, now, fail)
       IN /\ rds' = r.store
          /\ last' = OnTransport(PlainCall("Set", key, value, ttl, r.err,
                                           Changed(rds, r.store)), fail)
    /\ concreteTypeToName' = RegistryAfterSerializer(concreteTypeToName, value)
    /\ registeredTypes' = TypesAfterSerializer(registeredTypes, value)
    /\ UNCHANGED <<procs, backend, serializer, mem, now>>

DoRedisGetSet(key, ttl, obj, cbErr, cbVal, failGet, failSet) ==
    /\ backend = "redis" /\ Idle
    /\ LET r == RedisGetSet(rds, key, ttl, obj, cbErr, cbVal, now,
                            failGet, failSet)
       IN /\ rds' = r.store
          /\ last' = GetSetCall(key, obj, r, Changed(rds, r.store))
          /\ concreteTypeToName' =
                 IF r.cb = 1 /\ r.cberr = Ok /\ r.err # Panic   \* it went on to c.Set
                 THEN RegistryAfterSerializer(concreteTypeToName, StoredValueOf(r.obj))
                 ELSE concreteTypeToName
          /\ registeredTypes' =
                 IF r.cb = 1 /\ r.cberr = Ok /\ r.err # Panic
                 THEN TypesAfterSerializer(registeredTypes, StoredValueOf(r.obj))
                 ELSE registeredTypes
    /\ UNCHANGED <<procs, backend, serializer, mem, now>>

DoRedisDel(key, fail) ==
    /\ backend = "redis" /\ Idle
    /\ LET r == RedisDel(rds, key, fail)
       IN /\ rds' = r.store
          /\ last' = OnTransport(PlainCall("Del", key, NilIface, 0, r.err,
                                           Changed(rds, r.store)), fail)
    /\ UNCHANGED <<procs, backend, serializer, concreteTypeToName, registeredTypes, mem, now>>

DoRedisExpiresAt(key, expiresAt, fail) ==
    /\ backend = "redis" /\ Idle
    /\ LET r == RedisExpiresAt(rds, key, expiresAt, now, fail)
       IN /\ rds' = r.store
          /\ last' = OnTransport(ExpireCall("ExpiresAt", key, expiresAt,
                                            RFound(rds, key, now),
                                            r.err, Changed(rds, r.store)), fail)
    /\ UNCHANGED <<procs, backend, serializer, concreteTypeToName, registeredTypes, mem, now>>

DoRedisExpiresIn(key, ttl, fail) ==
    /\ backend = "redis" /\ Idle
    /\ LET r == RedisExpiresIn(rds, key, ttl, now, fail)
       IN /\ rds' = r.store
          /\ last' = OnTransport(ExpireCall("ExpiresIn", key, ttl,
                                            RFound(rds, key, now),
                                            r.err, Changed(rds, r.store)), fail)
    /\ UNCHANGED <<procs, backend, serializer, concreteTypeToName, registeredTypes, mem, now>>

\* the server drops expired keys on its own
RedisExpire ==
    /\ backend = "redis"
    /\ rds' = [k \in Keys |-> IF rds[k].present /\ ~RFound(rds, k, now) THEN RAbsent ELSE rds[k]]
    /\ rds' # rds
    /\ UNCHANGED <<procs, backend, serializer, concreteTypeToName, registeredTypes, mem, now, last>>

----------------------------------------------------------------------------
(* The caller and the clock *)

\* the caller takes the result and goes on to its next call
Return ==
    /\ ~Idle
    /\ last' = NoCall
    /\ UNCHANGED <<procs, backend, serializer, concreteTypeToName, registeredTypes, mem, rds, now>>

\* time passes; whatever returned before is no longer the immediate past
Tick ==
    /\ now < MaxTime
    /\ now' = now + 1
    /\ last' = NoCall
    /\ UNCHANGED <<procs, backend, serializer, concreteTypeToName, registeredTypes, mem, rds>>

----------------------------------------------------------------------------
(* GetSet called from several goroutines.  A call is not one step: it is   *)
(* the lookup (Get), then the callback, then the store (Set), and the      *)
(* steps of other goroutines fall in between.  Each goroutine makes one    *)
(* call; no command fails in the transport and the clock stands still.     *)

Procs == {"p1", "p2"}

\* a goroutine in its call: where it is (pc), its arguments, its lookup's
\* error (lk), the number of times its callback ran (cb), the error it
\* returned, whether its Set stored, and (seen) the goroutines whose Set on
\* the same key had stored when this one looked up
Proc(pc, key, ttl, obj, lk, cb, err, wrote, seen) ==
    [pc |-> pc, key |-> key, ttl |-> ttl, obj |-> obj, lk |-> lk, cb |-> cb,
     err |-> err, wrote |-> wrote, seen |-> seen]

NoProc == Proc("idle", "k1", 0, NoObj, Ok, 0, Ok, FALSE, {})

\* the goroutine's record is that of a GetSet call
InGetSet(r) == "seen" \in DOMAIN r

\* the goroutine enters GetSet
GsCall(p, key, ttl, obj) ==
    /\ procs[p].pc = "idle"
    /\ procs' = [procs EXCEPT ![p] = Proc("lookup", key, ttl, obj, Ok, 0, Ok, FALSE, {})]
    /\ UNCHANGED <<backend, serializer, concreteTypeToName, registeredTypes, mem, rds, now, last>>

\* err := c.Get(key, obj); a hit returns
GsLookup(p) ==
    /\ procs[p].pc = "lookup"
    /\ LET me == procs[p]
           g == IF backend = "memory" THEN MemoryGet(mem, me.key, me.obj, now)
                ELSE RedisGet(rds, me.key, me.obj, now, FALSE)
           seen == {q \in Procs : /\ InGetSet(procs[q]) /\ procs[q].wrote
                                   /\ procs[q].key = me.key}
       IN procs' = [procs EXCEPT ![p] =
              IF GetSetHit(g.err)
              THEN Proc("done", me.key, me.ttl, g.obj, g.err, 0, Ok, FALSE, seen)
              ELSE Proc("invoke", me.key, me.ttl, me.obj, g.err, 0, Ok, FALSE, seen)]
    /\ UNCHANGED <<backend, serializer, concreteTypeToName, registeredTypes, mem, rds, now, last>>

\* err = fun(key, obj); an error returns
GsInvoke(p, cbErr, cbVal) ==
    /\ procs[p].pc = "invoke"
    /\ LET me == procs[p]
           f == Callback(me.obj, cbErr, cbVal)
       IN procs' = [procs EXCEPT ![p] =
              IF f.err # Ok
              THEN Proc("done", me.key, me.ttl, f.obj, me.lk, me.cb + 1, f.err, FALSE, me.seen)
              ELSE Proc("store", me.key, me.ttl, f.obj, me.lk, me.cb + 1, Ok, FALSE, me.seen)]
    /\ UNCHANGED <<backend, serializer, concreteTypeToName, registeredTypes, mem, rds, now, last>>

\* return c.Set(key, objValue.Interface(), ttl)
GsStore(p) ==
    /\ procs[p].pc = "store"
    /\ LET me == procs[p]
           w == IF backend = "memory"
                THEN MemorySet(mem, me.key, StoredValueOf(me.obj), me.ttl, now)
                ELSE RedisSet(rds, me.key, StoredValueOf(me.obj), me.ttl, now, FALSE)
       IN /\ mem' = IF backend = "memory" THEN w.store ELSE mem
          /\ rds' = IF backend = "redis" THEN w.store ELSE rds
          /\ procs' = [procs EXCEPT ![p] =
                 Proc("done", me.key, me.ttl, me.obj, me.lk, me.cb, w.err, w.err = Ok, me.seen)]
          /\ concreteTypeToName' =
                 IF backend = "redis"
                 THEN RegistryAfterSerializer(concreteTypeToName, StoredValueOf(me.obj))
                 ELSE concreteTypeToName
          /\ registeredTypes' =
                 IF backend = "redis"
                 THEN TypesAfterSerializer(registeredTypes, StoredValueOf(me.obj))
                 ELSE registeredTypes
    /\ UNCHANGED <<backend, serializer, now, last>>

InitConc ==
    /\ backend \in {"memory", "redis"}
    /\ mem = [k \in Keys |-> Absent]
    /\ rds = [k \in Keys |-> RAbsent]
    /\ now = 1
    /\ last = NoCall
    /\ procs = [p \in Procs |-> NoProc]
    /\ concreteTypeToName = RegisterBasics
    /\ registeredTypes = {}
    /\ serializer = "gob"

NextConc ==
    \/ \E p \in Procs, k \in Keys, ttl \in TTLs, o \in PtrObjs : GsCall(p, k, ttl, o)
    \/ \E p \in Procs : GsLookup(p)
    \/ \E p \in Procs : \E cb \in CbOutcomes(procs[p].obj) : GsInvoke(p, cb[1], cb[2])
    \/ \E p \in Procs : GsStore(p)

SpecConc == InitConc /\ [][NextConc]_vars

----------------------------------------------------------------------------

Init ==
    /\ backend \in {"memory", "redis", "none"}
    /\ mem = [k \in Keys |-> Absent]
    /\ rds = [k \in Keys |-> RAbsent]
    /\ now = 1
    /\ last = NoCall
    /\ procs = [p \in Procs |-> NoProc]
    /\ concreteTypeToName = RegisterBasics
    /\ registeredTypes = {}
    /\ serializer = "gob"

Next ==
    \/ \E k \in Keys : DoMemoryExists(k)
    \/ \E k \in Keys, o \in Objs : DoMemoryGet(k, o)
    \/ \E k \in Keys, v \in AnyValues, ttl \in TTLs : DoMemorySet(k, v, ttl)
    \/ \E k \in Keys, ttl \in TTLs, o \in Objs : \E cb \in CbOutcomes(o) :
          DoMemoryGetSet(k, ttl, o, cb[1], cb[2])
    \/ \E k \in Keys : DoMemoryDel(k)
    \/ \E k \in Keys, t \in Instants : DoMemoryExpiresAt(k, t)
    \/ \E k \in Keys, ttl \in TTLs : DoMemoryExpiresIn(k, ttl)
    \/ Janitor
    \/ \E k \in Keys, fail \in BOOLEAN : DoRedisExists(k, fail)
    \/ \E k \in Keys, o \in Objs, fail \in BOOLEAN : DoRedisGet(k, o, fail)
    \/ \E k \in Keys, v \in AnyValues, ttl \in TTLs, fail \in BOOLEAN :
          DoRedisSet(k, v, ttl, fail)
    \/ \E k \in Keys, ttl \in TTLs, o \in Objs, failGet \in BOOLEAN, failSet \in BOOLEAN :
          \E cb \in CbOutcomes(o) :
              DoRedisGetSet(k, ttl, o, cb[1], cb[2], failGet, failSet)
    \/ \E k \in Keys, fail \in BOOLEAN : DoRedisDel(k, fail)
    \/ \E k \in Keys, t \in Instants, fail \in BOOLEAN : DoRedisExpiresAt(k, t, fail)
    \/ \E k \in Keys, ttl \in TTLs, fail \in BOOLEAN : DoRedisExpiresIn(k, ttl, fail)
    \/ RedisExpire
    \/ \E k \in Keys : DoNoneExists(k)
    \/ \E k \in Keys, o \in Objs : DoNoneGet(k, o)
    \/ \E k \in Keys, v \in AnyValues, ttl \in TTLs : DoNoneSet(k, v, ttl)
    \/ \E k \in Keys, ttl \in TTLs, o \in Objs : \E cb \in CbOutcomes(o) :
          DoNoneGetSet(k, ttl, o, cb[1], cb[2])
    \/ \E k \in Keys : DoNoneDel(k)
    \/ \E k \in Keys, t \in Instants : DoNoneExpiresAt(k, t)
    \/ \E k \in Keys, ttl \in TTLs : DoNoneExpiresIn(k, ttl)
    \/ Return
    \/ Tick

Spec == Init /\ [][Next]_vars

----------------------------------------------------------------------------
(* Value shapes.  The same Set and Get of Memory and Redis, and the codec   *)
(* on its own, over a wider universe of values: a struct, pointers to it,   *)
(* nil, empty and non-empty slices and maps.                                *)

ShapeTypes == {"int", "User", "*User", "[]int", "map[string]int"}

\* the values of a type: d = 0 is the empty slice or map, d = 2 a non-empty one
ShapesOf(t) ==
    CASE t = "int" -> {Boxed(t, FALSE, 1)}
      [] t = "User" -> {Boxed(t, FALSE, 1)}
      [] t = "*User" -> {Boxed(t, TRUE, 0), Boxed(t, FALSE, 1)}
      [] OTHER -> {Boxed(t, TRUE, 0), Boxed(t, FALSE, 0), Boxed(t, FALSE, 2)}

ShapeValues == UNION {ShapesOf(t) : t \in ShapeTypes} \cup {NilIface}

\* values no serializer has an encoding for: a channel, nil or not
ChanValues == {Boxed("chan int", TRUE, 0), Boxed("chan int", FALSE, 1)}

\* destinations: &v for a variable v of each type, or of type interface{}
ShapeObjs == {Obj("ptr", t, DestInit(t)) : t \in ShapeTypes \cup {IfaceT}}

ShapeKey == "k1"

\* NewMemory, NewRedis, or NewRedis with WithRedisSerializer(NewJson())
InitShapes ==
    /\ backend \in {"memory", "redis"}
    /\ mem = [k \in Keys |-> Absent]
    /\ rds = [k \in Keys |-> RAbsent]
    /\ now = 1
    /\ last = NoCall
    /\ procs = [p \in Procs |-> NoProc]
    /\ concreteTypeToName = RegisterBasics
    /\ registeredTypes = {}
    /\ serializer \in (IF backend = "redis" THEN {"gob", "json"} ELSE {"gob"})

NextShapes ==
    \/ \E v \in ShapeValues \cup ChanValues : DoMemorySet(ShapeKey, v, MaxTTL)
    \/ \E o \in ShapeObjs \cup BadObjs : DoMemoryGet(ShapeKey, o)
    \/ \E v \in ShapeValues \cup ChanValues : DoRedisSet(ShapeKey, v, MaxTTL, FALSE)
    \/ \E o \in ShapeObjs \cup BadObjs : DoRedisGet(ShapeKey, o, FALSE)
    \/ Return

SpecShapes == InitShapes /\ [][NextShapes]_vars

\* The codec on its own.  A caller encodes a value, then decodes the bytes it
\* got into a destination of its choice; last records the codec call that has
\* just returned: the value, its bytes, the error, the destination before and
\* after.
CodecCall(op, val, bytes, err, obj0, obj) ==
    [op |-> op, val |-> val, bytes |-> bytes, err |-> err, obj0 |-> obj0, obj |-> obj]

\* destinations of Decode: &v for each type, and the ones Decode refuses
CodecObjs == ShapeObjs \cup BadObjs

\* cache_value.Encode(value)
DoEncode(value) ==
    /\ Idle
    /\ LET e == Encode(value)
       IN last' = CodecCall("Encode", value, e.bytes, e.err, NoObj, NoObj)
    /\ concreteTypeToName' = RegistryAfterEncode(concreteTypeToName, value)
    /\ registeredTypes' = TypesAfterEncode(registeredTypes, value)
    /\ UNCHANGED <<procs, backend, serializer, mem, rds, now>>

\* cache_value.Decode(data, obj) on the bytes Encode has just returned
DoDecode(obj) ==
    /\ last.op = "Encode" /\ last.err = Ok
    /\ LET r == Decode(last.bytes, obj)
       IN last' = CodecCall("Decode", last.val, last.bytes, r.err, obj, r.obj)
    /\ UNCHANGED <<procs, backend, serializer, concreteTypeToName, registeredTypes, mem, rds, now>>

\* JsonSerializer.Encode(value)
DoJsonEncode(value) ==
    /\ Idle
    /\ LET e == JsonEncode(value)
       IN last' = CodecCall("JsonEncode", value, e.bytes, e.err, NoObj, NoObj)
    /\ UNCHANGED <<procs, backend, serializer, concreteTypeToName, registeredTypes, mem, rds, now>>

\* JsonSerializer.Decode(data, obj) on the bytes Encode has just returned
DoJsonDecode(obj) ==
    /\ last.op = "JsonEncode" /\ last.err = Ok
    /\ LET r == JsonDecode(last.bytes, obj)
       IN last' = CodecCall("JsonDecode", last.val, last.bytes, r.err, obj, r.obj)
    /\ UNCHANGED <<procs, backend, serializer, concreteTypeToName, registeredTypes, mem, rds, now>>

InitCodec ==
    /\ backend = "redis"
    /\ mem = [k \in Keys |-> Absent]
    /\ rds = [k \in Keys |-> RAbsent]
    /\ now = 1
    /\ last = NoCall
    /\ procs = [p \in Procs |-> NoProc]
    /\ concreteTypeToName = RegisterBasics
    /\ registeredTypes = {}
    /\ serializer = "gob"

NextCodec ==
    \/ \E v \in ShapeValues : DoEncode(v)
    \/ \E o \in CodecObjs : DoDecode(o)
    \/ \E v \in ShapeValues \cup ChanValues : DoJsonEncode(v)
    \/ \E o \in CodecObjs : DoJsonDecode(o)
    \/ Return

SpecCodec == InitCodec /\ [][NextCodec]_vars

----------------------------------------------------------------------------
(* Memory.ExpiresIn and Memory.ExpiresAt step by step.  Each is a cache.Get *)
(* followed by a cache.Set or cache.Delete; the store locks each of these   *)
(* on its own and Memory holds no lock across them, so the Set and Del of   *)
(* other goroutines can run in between.  The clock stands still.            *)
(* A goroutine's record: where it is (pc), the operation, key and argument, *)
(* the value it fetched, the error it returned, and three observations made *)
(* when it rewrote: vanished, the key it had fetched was no longer in the   *)
(* store; replaced, the key held another value than the one fetched; after, *)
(* the key was in the store once the rewrite was done.                      *)

ExpProc(pc, op, key, arg, val, err, vanished, replaced, after) ==
    [pc |-> pc, op |-> op, key |-> key, arg |-> arg, val |-> val, err |-> err,
     vanished |-> vanished, replaced |-> replaced, after |-> after]

NoExpProc == ExpProc("idle", "none", "k1", 0, NilIface, Ok, FALSE, FALSE, FALSE)

\* the goroutine enters ExpiresIn(key, arg) or ExpiresAt(key, arg)
ExpiresCall(p, op, key, arg) ==
    /\ procs[p].pc = "idle"
    /\ procs' = [procs EXCEPT ![p] = ExpProc("fetch", op, key, arg, NilIface, Ok,
                                              FALSE, FALSE, FALSE)]
    /\ UNCHANGED <<backend, serializer, concreteTypeToName, registeredTypes, mem, rds, now, last>>

\* val, found := c.cache.Get(key); not found returns "key not exists"
ExpiresFetch(p) ==
    /\ procs[p].pc = "fetch"
    /\ LET me == procs[p]
       IN procs' = [procs EXCEPT ![p] =
              IF ~CacheFound(mem, me.key, now)
              THEN ExpProc("done", me.op, me.key, me.arg, NilIface, ErrKeyNotExists,
                           FALSE, FALSE, FALSE)
              ELSE ExpProc("rewrite", me.op, me.key, me.arg, mem[me.key].val, Ok,
                           FALSE, FALSE, FALSE)]
    /\ UNCHANGED <<backend, serializer, concreteTypeToName, registeredTypes, mem, rds, now, last>>

\* c.cache.Set(key, val, ttl), or for ExpiresAt with a past instant
\* c.cache.Delete(key); return nil
ExpiresRewrite(p) ==
    /\ procs[p].pc = "rewrite"
    /\ LET me == procs[p]
           ttl == IF me.op = "ExpiresAt" THEN me.arg - now ELSE me.arg
           c2 == IF me.op = "ExpiresAt" /\ ttl < 0 THEN CacheDelete(mem, me.key)
                 ELSE CacheSet(mem, me.key, me.val, ttl, now)
       IN /\ mem' = c2
          /\ procs' = [procs EXCEPT ![p] =
                 ExpProc("done", me.op, me.key, me.arg, me.val, Ok,
                         ~CacheFound(mem, me.key, now),
                         CacheFound(mem, me.key, now) /\ mem[me.key].val # me.val,
                         CacheFound(c2, me.key, now))]
    /\ UNCHANGED <<backend, serializer, concreteTypeToName, registeredTypes, rds, now, last>>

\* the call has returned; the goroutine is free for another
ExpiresReturn(p) ==
    /\ procs[p].pc = "done"
    /\ procs' = [procs EXCEPT ![p] = NoExpProc]
    /\ UNCHANGED <<backend, serializer, concreteTypeToName, registeredTypes, mem, rds, now, last>>

\* another caller's Memory.Set
ConcurrentSet(key, value, ttl) ==
    /\ mem' = MemorySet(mem, key, value, ttl, now).store
    /\ UNCHANGED <<procs, backend, serializer, concreteTypeToName, registeredTypes, rds, now, last>>

\* another caller's Memory.Del
ConcurrentDel(key) ==
    /\ mem' = MemoryDel(mem, key).store
    /\ UNCHANGED <<procs, backend, serializer, concreteTypeToName, registeredTypes, rds, now, last>>

InitExpires ==
    /\ backend = "memory"
    /\ mem = [k \in Keys |-> Absent]
    /\ rds = [k \in Keys |-> RAbsent]
    /\ now = 1
    /\ last = NoCall
    /\ procs = [p \in Procs |-> NoExpProc]
    /\ concreteTypeToName = RegisterBasics
    /\ registeredTypes = {}
    /\ serializer = "gob"

NextExpires ==
    \/ \E p \in Procs, k \in Keys, ttl \in TTLs : ExpiresCall(p, "ExpiresIn", k, ttl)
    \/ \E p \in Procs, k \in Keys, t \in Instants : ExpiresCall(p, "ExpiresAt", k, t)
    \/ \E p \in Procs : ExpiresFetch(p)
    \/ \E p \in Procs : ExpiresRewrite(p)
    \/ \E p \in Procs : ExpiresReturn(p)
    \/ \E k \in Keys, ttl \in TTLs : ConcurrentSet(k, Boxed("int", FALSE, 1), ttl)
    \/ \E k \in Keys : ConcurrentDel(k)

SpecExpires == InitExpires /\ [][NextExpires]_vars

\* the two-step operations of the Memory variant side by side: goroutines in
\* GetSet, ExpiresIn or ExpiresAt, and the Set and Del of other callers
RaceValues == {Boxed("int", FALSE, 1), Boxed("int", FALSE, 2)}

RaceObj == Obj("ptr", "int", DestInit("int"))

NextRace ==
    \/ \E p \in Procs, k \in Keys : GsCall(p, k, 0, RaceObj)
    \/ \E p \in Procs : GsLookup(p)
    \/ \E p \in Procs : \E v \in RaceValues : GsInvoke(p, FALSE, v)
    \/ \E p \in Procs : GsStore(p)
    \/ \E p \in Procs, k \in Keys : ExpiresCall(p, "ExpiresIn", k, 1)
    \/ \E p \in Procs, k \in Keys, t \in {0, MaxTime} : ExpiresCall(p, "ExpiresAt", k, t)
    \/ \E p \in Procs : ExpiresFetch(p)
    \/ \E p \in Procs : ExpiresRewrite(p)
    \/ \E p \in Procs : ExpiresReturn(p)
    \/ \E k \in Keys, v \in RaceValues : ConcurrentSet(k, v, 0)
    \/ \E k \in Keys : ConcurrentDel(k)

SpecRace == InitExpires /\ [][NextRace]_vars

----------------------------------------------------------------------------
(* Properties.  A property about a call and the call after it is stated on *)
(* the state in which the first call has just returned (last): the call    *)
(* that follows immediately is the variant's operation applied to that     *)
(* state, on a transport that does not fail.                               *)

\* a fresh destination *T
Dest(t) == Obj("ptr", t, DestInit(t))

\* the lookup errors that say the key is absent
KeyAbsentErrs == {ErrKeyNotExists, ErrRedisNil}

\* Exists(key) called now
ThenExists(key) ==
    CASE backend = "memory" -> MemoryExists(mem, key, now)
      [] backend = "redis" -> RedisExists(rds, key, now, FALSE)
      [] OTHER -> NoneExists(key)

\* Get(key, obj) called now
ThenGet(key, obj) ==
    CASE backend = "memory" -> MemoryGet(mem, key, obj, now)
      [] backend = "redis" -> RedisGet(rds, key, obj, now, FALSE)
      [] OTHER -> NoneGet(key, obj)

\* GetSet(key, ttl, obj, cb) called on store c at the present time
GetSetOn(c, key, ttl, obj, cbErr, cbVal) ==
    CASE backend = "memory" -> MemoryGetSet(c, key, ttl, obj, cbErr, cbVal, now)
      [] backend = "redis" -> RedisGetSet(c, key, ttl, obj, cbErr, cbVal, now, FALSE, FALSE)
      [] OTHER -> NoneGetSet(c, key, ttl, obj, cbErr, cbVal)

\* the store of the variant
Store == IF backend = "redis" THEN rds ELSE mem

\* the store holds value v under key: the value itself in Memory, its
\* encoding in Redis
Holds(key, v) ==
    CASE backend = "memory" -> MemoryExists(mem, key, now) /\ mem[key].val = v
      [] backend = "redis" -> RFound(rds, key, now) /\ rds[key].val = SerializerEncode(v).bytes
      [] OTHER -> FALSE

\* the type name the stored entry carries
StoredType(key) ==
    IF backend = "redis" THEN rds[key].val.tname ELSE mem[key].val.t

\* the last call was a GetSet with a usable destination that missed, whose
\* callback returned nil, and (Redis) whose commands reached the server
GetSetMissed ==
    /\ last.op = "GetSet"
    /\ backend \in {"memory", "redis"}
    /\ last.lk # Ok
    /\ last.obj0.form = "ptr"
    /\ last.cberr = Ok
    /\ last.err # ErrTransport

\* a following GetSet with a destination of the same type hits: whatever its
\* ttl and callback, the callback is not invoked and the destination gets v
ThenGetSetHits(key, t, v) ==
    \A ttl2 \in TTLs : \A cb2 \in CbOutcomes(Dest(t)) :
        LET r == GetSetOn(Store, key, ttl2, Dest(t), cb2[1], cb2[2])
        IN r.err = Ok /\ r.cb = 0 /\ r.obj.cur = v

\* what C1 says of a GetSet that missed on an absent key: it invoked the
\* callback exactly once, stored the value the callback left and returned nil,
\* and a following GetSet hits
ReadThroughOnce ==
    /\ last.cb = 1
    /\ last.err = Ok
    /\ Holds(last.key, last.obj.cur)
    /\ ThenGetSetHits(last.key, last.obj0.st, last.obj.cur)

StoresPointee(key, t) ==
    /\ StoredType(key) = t
    /\ ThenGet(key, Dest(t)).err = Ok
    /\ \A ttl2 \in TTLs : \A cb2 \in CbOutcomes(Dest(t)) :
          LET r2 == GetSetOn(Store, key, ttl2, Dest(t), cb2[1], cb2[2])
          IN /\ r2.lk = Ok /\ r2.err = Ok
             /\ \A cb3 \in CbOutcomes(Dest(t)) :
                   LET r3 == GetSetOn(r2.store, key, ttl2, Dest(t), cb3[1], cb3[2])
                   IN r3.lk = Ok /\ r3.err = Ok

C3_CallbackError ==
    (last.op = "GetSet" /\ last.cberr # Ok)
    => /\ last.err = last.cberr
       /\ last.changed = {}
       /\ (last.lk \in KeyAbsentErrs => ~ThenExists(last.key))

\* a GetSet on an absent key whose callback failed has just returned, while
\* the other key holds an entry
C3_Witness ==
    /\ last.op = "GetSet" /\ last.cberr = ErrCallback /\ last.cb = 1
    /\ last.lk \in KeyAbsentErrs
    /\ \E k \in Keys \ {last.key} : ThenExists(k)

\* C4: when GetSet's lookup succeeds, GetSet returns nil with the stored value
\* in the destination (what Get puts there), never invokes the callback and
\* writes nothing: value and expiry of every entry are as they were.
C4_HitIsReadOnly ==
    (last.op = "GetSet" /\ backend \in {"memory", "redis"} /\ last.lk = Ok)
    => /\ last.err = Ok
       /\ last.cb = 0
       /\ last.changed = {}
       /\ ThenGet(last.key, last.obj0) = Res(Ok, last.obj)
       /\ (backend = "memory" /\ mem[last.key].val # NilIface
              => last.obj.cur = mem[last.key].val)

\* a GetSet has just hit an entry that expires
C4_Witness ==
    /\ last.op = "GetSet" /\ backend \in {"memory", "redis"} /\ last.lk = Ok
    /\ last.obj.cur = Boxed("int", FALSE, 1)
    /\ Store[last.key].exp > 0

\* the goroutine has made its lookup
LookedUp(p) == procs[p].pc \in {"invoke", "store", "done"}

NegativeCaching ==
    /\ last.err = Ok
    /\ ThenExists(last.key)
    /\ ThenGetSetHits(last.key, last.obj0.st, Zero(last.obj0.st))

\* C6 as the specification states it: when a GetSet misses and its callback
\* succeeds leaving a nil-shaped value (a nil pointer, a nil slice, the nil
\* interface) in the destination, the nil is stored as a present entry: Exists
\* is true, and a following GetSet with the same destination type returns nil
\* with a nil destination and does not invoke its callback.
C6_AsStated ==
    (GetSetMissed /\ last.obj.cur.isnil) => NegativeCaching

\* C6, amended: the same, except in Memory for a destination of interface type
\* in which the callback left a typed nil (a nil pointer or slice held by the
\* interface): the entry is stored under the nil's own type, Exists is true,
\* but the following lookup into the interface destination is a type mismatch
\* and the callback runs again.
C6_NegativeCaching ==
    (/\ GetSetMissed /\ last.obj.cur.isnil
     /\ (backend = "redis" \/ last.obj0.st # IfaceT \/ last.obj.cur = NilIface))
    => NegativeCaching

\* a GetSet whose callback left a nil pointer has just returned from Redis
C6_Witness ==
    /\ GetSetMissed /\ backend = "redis"
    /\ last.obj0.st = "*int" /\ last.obj.cur = Boxed("*int", TRUE, 0)
    /\ last.err = Ok

\* C7: on None, GetSet always returns the "not implemented" error, never
\* invokes the callback, and leaves the destination and all state untouched.
C7_NoneGetSet ==
    (backend = "none" /\ last.op = "GetSet")
    => /\ last.err = ErrNotImplemented
       /\ last.cb = 0
       /\ last.obj = last.obj0
       /\ last.changed = {}

\* a GetSet with a usable destination has just returned from None
C7_Witness ==
    /\ backend = "none" /\ last.op = "GetSet"
    /\ last.obj0 = Dest("int")

\* C8: on None, after any sequence of operations, Exists answers false, Get
\* returns the "not implemented" error, Set, Del, ExpiresAt and ExpiresIn
\* return nil, and nothing is ever stored: after a Set, Exists and Get on the
\* same key still report it missing.
C8_NoneStoresNothing ==
    backend = "none"
    => /\ (last.op = "Exists" => ~last.found)
       /\ (last.op = "Get" => last.err = ErrNotImplemented)
       /\ (last.op \in {"Set", "Del", "ExpiresAt", "ExpiresIn"} => last.err = Ok)
       /\ last.changed = {}
       /\ \A k \in Keys : ~mem[k].present /\ ~rds[k].present
       /\ (last.op = "Set"
              => /\ ~ThenExists(last.key)
                 /\ \A o \in Objs : ThenGet(last.key, o).err = ErrNotImplemented)

\* a Set of a value has just returned from None
C8_Witness ==
    /\ backend = "none" /\ last.op = "Set"
    /\ last.val = Boxed("int", FALSE, 1) /\ last.err = Ok

\* C9: in Memory, after Set(k, v, ttl) with v a nil pointer, slice or map and
\* ttl > 0, Exists(k) is true and Get(k, &p) with p of v's type returns nil and
\* leaves p nil; Get on a key that holds nothing returns the key-not-found
\* error and Exists on it is false.
C9_NilIsNotAbsent ==
    (/\ backend = "memory" /\ last.op = "Set"
     /\ last.val # NilIface /\ last.val.isnil /\ last.arg > 0)
    => /\ last.err = Ok
       /\ ThenExists(last.key)
       /\ ThenGet(last.key, Dest(last.val.t)) = Res(Ok, Obj("ptr", last.val.t, last.val))
       /\ \A k \in Keys :
             ~mem[k].present
             => /\ ~ThenExists(k)
                /\ ThenGet(k, Dest(last.val.t)).err = ErrKeyNotExists

\* a nil slice has just been Set with a positive ttl while the other key holds
\* nothing
C9_Witness ==
    /\ backend = "memory" /\ last.op = "Set"
    /\ last.val = Boxed("[]int", TRUE, 0) /\ last.arg > 0
    /\ \E k \in Keys \ {last.key} : ~mem[k].present

Expiring == last.op \in {"ExpiresAt", "ExpiresIn"}

\* C12: in Memory, ExpiresAt(k, t) on an existing key with t strictly in the
\* past deletes k at once and returns nil: Exists(k) is false right after.
C12_PastInstantDeletes ==
    (/\ backend = "memory" /\ last.op = "ExpiresAt"
     /\ last.found /\ last.arg < now)
    => /\ last.err = Ok
       /\ ~ThenExists(last.key)
       /\ ~mem[last.key].present
       /\ last.changed = {last.key}

\* ExpiresAt with a past instant has just returned nil for a key that was there
C12_Witness ==
    /\ backend = "memory" /\ last.op = "ExpiresAt"
    /\ last.found /\ last.arg < now /\ last.err = Ok

\* C13: in Memory, ExpiresIn and ExpiresAt on an absent key (never set,
\* deleted, or expired) return the key-not-found error and do not create the
\* key: Exists(k) is still false, and the store is as it was.
C13_AbsentKeyNotCreated ==
    (backend = "memory" /\ Expiring /\ ~last.found)
    => /\ last.err = ErrKeyNotExists
       /\ last.changed = {}
       /\ ~ThenExists(last.key)

\* ExpiresIn has just been called on a key whose entry has expired and has not
\* been cleaned up yet
C13_Witness ==
    /\ backend = "memory" /\ last.op = "ExpiresIn" /\ ~last.found
    /\ mem[last.key].present /\ last.arg > 0
    /\ last.err = ErrKeyNotExists

\* C14 as the specification states it: in Redis, ExpiresIn and ExpiresAt on a
\* key that does not exist in the remote store return a key-not-found error
\* (not nil) and do not create the key.
C14_AsStated ==
    (backend = "redis" /\ Expiring /\ ~last.found /\ last.err # ErrTransport)
    => /\ last.err \in KeyAbsentErrs
       /\ last.changed = {}
       /\ ~ThenExists(last.key)

\* Memory.Set has just been called with a non-positive ttl
MemorySetNonPositive == backend = "memory" /\ last.op = "Set" /\ last.arg <= 0

\* C16 as stated: in the in-process variant, Set with ttl <= 0 stores the entry
\* with the store's default expiration: the key is there right after Set and is
\* absent once the default duration has elapsed.
C16_AsStated ==
    MemorySetNonPositive
    => /\ ThenExists(last.key)
       /\ mem[last.key].exp = now + DefaultExpiration
       /\ ~MemoryExists(mem, last.key, now + DefaultExpiration + 1)

\* the destination a caller declares to read back v: a variable of v's type
\* (an interface variable for the untyped nil)
DestFor(v) == Dest(IF v = NilIface THEN IfaceT ELSE v.t)

\* C17: in the in-process variant, Set with ttl <= 0 never writes an
\* already-expired entry: Set returns nil, and right after it Exists(k) is true
\* and Get(k) returns the value that was set.
C17_NeverAlreadyExpired ==
    MemorySetNonPositive
    => /\ last.err = Ok
       /\ ThenExists(last.key)
       /\ LET g == ThenGet(last.key, DestFor(last.val))
          IN g.err = Ok /\ g.obj.cur = last.val

\* a Set with a negative ttl has just returned, late enough for now + ttl to
\* be a past instant
C17_Witness ==
    MemorySetNonPositive /\ last.arg < 0 /\ now + last.arg >= 1 /\ last.err = Ok

\* Redis.Set has just written with a non-positive ttl
RedisSetNonPositive ==
    backend = "redis" /\ last.op = "Set" /\ last.arg <= 0 /\ last.err = Ok

\* C18: in the remote variant, Set with ttl <= 0 writes with expiry 0, the
\* store's no-expiry sentinel: the key exists after the call and does not
\* expire by itself at any later time.
C18_NoExpirySentinel ==
    RedisSetNonPositive
    => /\ rds[last.key].present
       /\ rds[last.key].exp = 0
       /\ ThenExists(last.key)
       /\ \A t \in now .. (MaxTime + MaxTTL + 1) : RedisExists(rds, last.key, t, FALSE)

\* a Set with a negative ttl has just written to the remote store
C18_Witness == RedisSetNonPositive /\ last.arg < 0 /\ rds[last.key].present

\* C11 as the README quick-start shows it: after Set(k, p, ttl) with p a non-nil
\* pointer to a struct of type User, Get(k, &v) with v declared of type User
\* returns nil and v holds the struct p pointed to.
C11_AsStated ==
    (last.op = "Set" /\ last.err = Ok /\ last.val.t = "*User" /\ ~last.val.isnil)
    => LET g == ThenGet(last.key, Dest("User"))
       IN g.err = Ok /\ g.obj.cur = Boxed("User", FALSE, last.val.d)

\* the value shapes the round trip is promised for: primitives, structs,
\* non-nil slices and maps, the nil pointer, the nil slice, the nil map
SupportedShape(v) == v # NilIface /\ ~(Kind(v.t) = "ptr" /\ ~v.isnil)

\* Decode has just returned for the bytes of v and a destination &dest with
\* dest of v's own type
DecodedIntoOwnType ==
    last.op = "Decode" /\ SupportedShape(last.val) /\ last.obj0 = Dest(last.val.t)

\* C19 as stated: for every supported value V, Encode(V) succeeds, and
\* Decode(Encode(V), &dest) with dest of V's type returns nil and leaves dest
\* equal to V (nil when V is nil).
C19_AsStated ==
    /\ (last.op = "Encode" /\ SupportedShape(last.val)) => last.err = Ok
    /\ DecodedIntoOwnType => (last.err = Ok /\ last.obj.cur = last.val)

\* Decode has just returned for the bytes of a non-nil value of type T and a
\* destination &dest with dest of another type U
DecodedIntoOtherType ==
    /\ last.op = "Decode"
    /\ last.val # NilIface /\ ~last.val.isnil
    /\ last.obj0.form = "ptr" /\ last.obj0.st # last.val.t

\* C20 as stated: for every non-nil value V of type T and every destination of
\* a type U different from T, Decode(Encode(V), &destU) returns a type-mismatch
\* error and does not modify destU.
C20_AsStated ==
    DecodedIntoOtherType => (last.err = ErrTypeMismatch /\ last.obj = last.obj0)

\* C15 as stated: in the in-process variant, when a Del(k) of another caller
\* takes effect between the fetch and the rewrite of ExpiresIn or ExpiresAt,
\* the operation returns key-not-found and k stays absent: the deleted key is
\* never resurrected.
C15_AsStated ==
    \A p \in Procs :
        (procs[p].pc = "done" /\ procs[p].vanished)
        => (procs[p].err = ErrKeyNotExists /\ ~procs[p].after)

\* Decode has just returned for the bytes of a nil pointer, slice or map of
\* type T and a destination &dest with dest of another pointer, slice or map
\* type U
NilDecodedIntoOtherType ==
    /\ last.op = "Decode"
    /\ last.val # NilIface /\ last.val.isnil
    /\ last.obj0.form = "ptr" /\ last.obj0.st # last.val.t
    /\ Kind(last.obj0.st) \in {"ptr", "slice", "map"}

\* C21 as stated: decoding never coerces across types, nil values included: the
\* bytes of a nil value of type T decoded into a nilable destination of a
\* different type U fail with a type error instead of yielding a nil U.
C21_AsStated ==
    NilDecodedIntoOtherType => (last.err = ErrTypeMismatch /\ last.obj = last.obj0)

\* what is stored under key is nil-shaped: for Memory the value itself (the
\* untyped nil, or a nil pointer, slice, map or channel), for Redis the bytes
\* (gob's nil marker or nil interface, JSON's is_nil)
StoredNil(key) ==
    IF backend = "memory" THEN mem[key].val.isnil
    ELSE LET b == rds[key].val
         IN IF b.kind = "json" THEN b.is_nil
            ELSE b.kind = "nilValueMarker" \/ (b.kind = "value" /\ b.tname = "<nil>")

\* Get has just found a nil-shaped value under its key and had a destination
\* &dest to deliver it to
GotNil ==
    /\ last.op = "Get" /\ last.obj0.form = "ptr"
    /\ Store[last.key].present /\ last.err \notin KeyAbsentErrs
    /\ StoredNil(last.key)

\* the delivery of nil that C22 describes: a destination of a nilable kind is
\* zeroed and the call returns nil; any other destination is left as it was
\* and the call returns the nil-assignment error
NilDelivered ==
    IF Kind(last.obj0.st) \in NilableKinds
    THEN last.err = Ok /\ last.obj.cur = Zero(last.obj0.st)
    ELSE last.err = ErrNilAssign /\ last.obj = last.obj0

\* C22 as stated: for both codecs and for the in-process Get, a nil-shaped
\* stored or encoded value zeroes a destination of a nilable kind and returns
\* nil, and returns a nil-assignment error, the destination unchanged, for a
\* destination that is not nilable.
C22_AsStated == GotNil => NilDelivered

\* Memory keeps the value's type: what it holds under key is a typed nil (a
\* nil pointer, slice, map or channel), not the untyped nil
MemoryHoldsTypedNil(key) ==
    backend = "memory" /\ mem[key].val.isnil /\ mem[key].val # NilIface

\* C22, amended: the delivery is as stated for both codecs, and for the
\* in-process Get when the stored value is the untyped nil or a typed nil of
\* exactly the destination's type; a typed nil of any other type is refused by
\* the in-process Get with a type-mismatch error, the destination unchanged.
C22_NilDelivery ==
    GotNil =>
        IF MemoryHoldsTypedNil(last.key) /\ mem[last.key].val.t # last.obj0.st
        THEN last.err = ErrTypeMismatch /\ last.obj = last.obj0
        ELSE NilDelivered

\* the JSON serializer has just refused to deliver a nil to a struct or an int
C22_Witness ==
    /\ GotNil /\ backend = "redis" /\ serializer = "json"
    /\ Kind(last.obj0.st) \notin NilableKinds
    /\ last.err = ErrNilAssign

\* Get has just returned for a key that holds a value and a destination that
\* is not a pointer to a variable
GotIntoBadObj ==
    /\ last.op = "Get" /\ last.obj0.form \in {"nil", "nonptr", "nilptr"}
    /\ Store[last.key].present /\ ThenExists(last.key)

\* C23: Decode of both codecs and the in-process Get return the
\* invalid-destination error and touch nothing when the destination is nil
\* ("obj cannot be nil") or is not a pointer ("obj must be a pointer"),
\* whatever the bytes or the stored value; a nil pointer of some type *T is
\* refused with an error too.
C23_InvalidDestination ==
    GotIntoBadObj =>
        /\ last.obj = last.obj0
        /\ last.obj0.form = "nil" => last.err = ErrObjNil
        /\ last.obj0.form = "nonptr" => last.err = ErrObjNotPtr
        /\ last.obj0.form = "nilptr" => last.err \notin {Ok} \cup KeyAbsentErrs

\* the gob codec has just refused a destination that is not a pointer, for
\* bytes that hold a value
C23_Witness ==
    /\ GotIntoBadObj /\ backend = "redis" /\ serializer = "gob"
    /\ last.obj0.form = "nonptr" /\ rds[last.key].val.kind = "value"
    /\ last.err = ErrObjNotPtr

\* JsonSerializer.Encode has just returned bytes
JsonEncoded == last.op = "JsonEncode" /\ last.err = Ok

\* the value is a nil pointer, slice or map
TypedNil(v) == v # NilIface /\ Kind(v.t) \in {"ptr", "slice", "map"} /\ v.isnil

\* the is_nil and value fields of the envelope are as C24 says: a nil value
\* gives is_nil = true and no value, any other value is_nil = false and its
\* payload
EnvelopeOf(v, b) ==
    IF v = NilIface \/ TypedNil(v)
    THEN b.is_nil /\ b.value = NoJson
    ELSE ~b.is_nil /\ b.value = JsonValue(JsonShape(v.t), v.d)

\* C24 as stated: the textual codec's wire form is exactly the envelope
\* {is_nil, value}, the value omitted for a nil pointer, slice or map, with no
\* other field: no type-name tag is written.
C24_AsStated ==
    JsonEncoded => (EnvelopeOf(last.val, last.bytes) /\ last.bytes.type_name = "")

\* C24, amended: the wire form is the envelope {is_nil, type_name, value}: the
\* value is omitted for nil values, and type_name is written, carrying the
\* value's type, exactly for a nil pointer, slice or map.
C24_WireForm ==
    JsonEncoded =>
        /\ EnvelopeOf(last.val, last.bytes)
        /\ last.bytes.type_name = (IF TypedNil(last.val) THEN last.val.t ELSE "")

\* a nil pointer has just been encoded
C24_Witness == JsonEncoded /\ TypedNil(last.val) /\ Kind(last.val.t) = "ptr"

\* Redis.Set has just returned for a value its serializer cannot represent
RedisSetUnencodable ==
    /\ backend = "redis" /\ last.op = "Set"
    /\ last.val # NilIface /\ Kind(last.val.t) \in {"chan", "func"}

\* C25: a value the configured codec cannot represent is rejected at encode
\* time, before any write: Redis.Set returns the encode error and issues no
\* SET, so the key is as it was, absent or with its old value and expiry.
C25_RejectedBeforeWrite ==
    RedisSetUnencodable =>
        /\ last.err = (IF serializer = "json" THEN ErrJsonEncode ELSE ErrGobEncode)
        /\ last.changed = {}

\* the textual codec has just refused a channel for a key that holds a value
C25_Witness ==
    /\ RedisSetUnencodable /\ serializer = "json"
    /\ rds[last.key].present /\ last.err = ErrJsonEncode

----------------------------------------------------------------------------
\* Concurrent Encode calls: each goroutine goes through registerTypeIfNeeded
\* and the gob encoder one step at a time, sharing registeredTypes and gob's
\* registry

RegProc(pc, value, swallowed, err) ==
    [pc |-> pc, value |-> value, swallowed |-> swallowed, err |-> err]

NoRegProc == RegProc("idle", NilIface, FALSE, Ok)

RegValues ==
    {Boxed("int", FALSE, 1), Boxed("User", FALSE, 1), Boxed("*User", FALSE, 1),
     Boxed("*User", TRUE, 0), Boxed("map[string]int", FALSE, 2), NilIface}

\* gob.Register panics when the base type already has another name
GobRegisterPanics(reg, t) == reg[Base(t)] # "" /\ reg[Base(t)] # t

\* gob.Register with no deferred recover around it: the panic leaves Encode
RegisterUnrecovered(reg, t) ==
    [reg |-> GobRegister(reg, t), swallowed |-> FALSE,
     err |-> IF GobRegisterPanics(reg, t) THEN Panic ELSE Ok]

\* the tail of registerTypeIfNeeded: gob.Register under the deferred recover
RegisterRecovered(reg, t) ==
    [reg |-> GobRegister(reg, t), swallowed |-> GobRegisterPanics(reg, t), err |-> Ok]

\* enc.Encode(&value) against the registry as it is at that moment: a type
\* with no registered name is "type not registered for interface"
GobEncodeWith(reg, value) ==
    IF value # NilIface /\ Kind(value.t) \in {"chan", "func"}
    THEN Enc(ErrGobEncode, NoBytes)
    ELSE IF GobTypeName(reg, value) = ""
    THEN Enc(ErrGobEncode, NoBytes)
    ELSE Enc(Ok, ValueBytes(GobTypeName(reg, value), value.d))

\* a goroutine enters Encode: the nil-marker path and the nil interface skip
\* the registration
EncodeCall(p, value) ==
    /\ procs[p].pc = "idle"
    /\ procs' = [procs EXCEPT ![p] =
           RegProc(IF EncodesNilMarker(value) \/ value = NilIface
                   THEN "encode" ELSE "loadOrStore", value, FALSE, Ok)]
    /\ UNCHANGED <<backend, serializer, mem, rds, now, last, concreteTypeToName,
                   registeredTypes>>

\* registeredTypes.LoadOrStore(typeName, true)
LoadOrStore(p) ==
    /\ procs[p].pc = "loadOrStore"
    /\ procs' = [procs EXCEPT ![p].pc =
           IF procs[p].value.t \in registeredTypes THEN "encode" ELSE "gobRegister"]
    /\ registeredTypes' = registeredTypes \cup {procs[p].value.t}
    /\ UNCHANGED <<backend, serializer, mem, rds, now, last, concreteTypeToName>>

\* gob.Register(value)
GobRegisterCall(p) ==
    /\ procs[p].pc = "gobRegister"
    /\ LET r == RegisterRecovered(concreteTypeToName, procs[p].value.t)
       IN /\ concreteTypeToName' = r.reg
          /\ procs' = [procs EXCEPT ![p] =
                 RegProc(IF r.err = Ok THEN "encode" ELSE "done", procs[p].value,
                         r.swallowed, r.err)]
    /\ UNCHANGED <<backend, serializer, mem, rds, now, last, registeredTypes>>

\* the gob encoder runs, or the nil marker is encoded in the value's place
GobEncode(p) ==
    /\ procs[p].pc = "encode"
    /\ LET e == IF EncodesNilMarker(procs[p].value)
                THEN Enc(Ok, NilMarkerBytes(procs[p].value.t))
                ELSE GobEncodeWith(concreteTypeToName, procs[p].value)
       IN procs' = [procs EXCEPT ![p].pc = "done", ![p].err = e.err]
    /\ UNCHANGED <<backend, serializer, mem, rds, now, last, concreteTypeToName,
                   registeredTypes>>

\* Encode returns to its caller
EncodeReturn(p) ==
    /\ procs[p].pc = "done"
    /\ procs' = [procs EXCEPT ![p] = NoRegProc]
    /\ UNCHANGED <<backend, serializer, mem, rds, now, last, concreteTypeToName,
                   registeredTypes>>

InitRegistry ==
    /\ backend = "redis"
    /\ mem = [k \in Keys |-> Absent]
    /\ rds = [k \in Keys |-> RAbsent]
    /\ now = 1
    /\ last = NoCall
    /\ procs = [p \in Procs |-> NoRegProc]
    /\ concreteTypeToName = RegisterBasics
    /\ registeredTypes = {}
    /\ serializer = "gob"

NextRegistry ==
    \/ \E p \in Procs, v \in RegValues : EncodeCall(p, v)
    \/ \E p \in Procs : LoadOrStore(p)
    \/ \E p \in Procs : GobRegisterCall(p)
    \/ \E p \in Procs : GobEncode(p)
    \/ \E p \in Procs : EncodeReturn(p)

SpecRegistry == InitRegistry /\ [][NextRegistry]_vars

\* a step leaves every registered type name and every name in gob's registry
\* where it was
RegistryGrows ==
    /\ registeredTypes \subseteq registeredTypes'
    /\ \A b \in BaseTypes :
           concreteTypeToName[b] # "" => concreteTypeToName'[b] = concreteTypeToName[b]

\* a goroutine whose type name is in registeredTypes already goes on to the
\* encoder and changes neither registry
KnownTypeIsNoOp ==
    \A p \in Procs :
        (/\ procs[p].pc = "loadOrStore"
         /\ procs'[p].pc # "loadOrStore"
         /\ procs[p].value.t \in registeredTypes)
        => /\ procs'[p].pc = "encode"
           /\ UNCHANGED <<registeredTypes, concreteTypeToName>>

\* C26: whatever the interleaving of concurrent Encode calls, no call ends in
\* a panic (the duplicate-registration panic of gob.Register never leaves
\* Encode), registeredTypes and gob's registry only grow, and the
\* registration of a type name already in registeredTypes changes neither.
C26_ConcurrentFirstUse ==
    /\ [](\A p \in Procs : procs[p].err # Panic)
    /\ [][RegistryGrows /\ KnownTypeIsNoOp]_vars

\* two goroutines are inside Encode at once, one of them has had the
\* duplicate-registration panic of gob.Register swallowed and has returned
\* without a panic, and the other found its type name already claimed
C26_Witness ==
    \E p, q \in Procs :
        /\ p # q
        /\ procs[p].pc = "done" /\ procs[p].swallowed /\ procs[p].err # Panic
        /\ procs[q].pc = "encode" /\ procs[q].value # NilIface
        /\ ~EncodesNilMarker(procs[q].value)
        /\ procs[q].value.t = procs[p].value.t

\* the transport failed the command of the call that has just returned
CommandFailed ==
    /\ backend = "redis"
    /\ last.op \in {"Get", "Set", "Del", "ExpiresIn", "ExpiresAt"}
    /\ last.failed
    /\ (last.op = "Set" => SerializerEncode(last.val).err = Ok)

\* C27: in the Redis variant a Get, Set, Del, ExpiresIn or ExpiresAt whose
\* command the transport fails returns that transport error, and the command
\* is not sent again: the store is as it was and a Get's destination is
\* untouched.  (A Set whose value cannot be encoded sends no command.)
C27_TransportFailurePropagates ==
    CommandFailed => /\ last.err = ErrTransport
                     /\ last.changed = {}
                     /\ last.obj = last.obj0

\* the transport failed the DEL of a key that is in the store
C27_Witness ==
    /\ CommandFailed
    /\ last.op = "Del"
    /\ RFound(rds, last.key, now)
    /\ last.err = ErrTransport

\* C28, as stated: a transport failure during the Redis variant's Exists is
\* observable by the caller as a failure.  (Exists has one result, a bool, and
\* returns false when the command failed.)
C28_AsStated ==
    (backend = "redis" /\ last.op = "Exists" /\ last.failed)
        => last.err # Ok

----------------------------------------------------------------------------
\* Memory's Set, Get and Del called from several goroutines.  The store's
\* Set, Get and Delete each run under the store's lock and are one step; a
\* Get is the store's Get and then assignValue into the caller's destination.
\* The clock stands still.  A goroutine's record: where it is (pc), the
\* operation, key and value, the destination, the error it returned, and
\* (wrote) the key-value pairs its Sets have put in the store so far.

MemProc(pc, op, key, val, obj, err, wrote) ==
    [pc |-> pc, op |-> op, key |-> key, val |-> val, obj |-> obj, err |-> err,
     wrote |-> wrote]

NoMemProc == MemProc("idle", "none", "k1", NilIface, NoObj, Ok, {})

MemValues == {Boxed("int", FALSE, 1), Boxed("int", FALSE, 2)}

\* destinations: &v for an int v, and for a []int v that no stored value fits
MemObjs == {Obj("ptr", t, DestInit(t)) : t \in {"int", "[]int"}}

\* the goroutine enters Set(key, val, 0), Get(key, obj) or Del(key)
MemCall(p, op, key, val, obj) ==
    /\ procs[p].pc = "idle"
    /\ procs' = [procs EXCEPT ![p] = MemProc("cache", op, key, val, obj, Ok, procs[p].wrote)]
    /\ UNCHANGED <<backend, serializer, concreteTypeToName, registeredTypes, mem, rds, now, last>>

\* the call's one operation on the store: c.cache.Set, c.cache.Get or
\* c.cache.Delete.  Set and Del return nil; a Get that found nothing returns
\* "key not exists"
MemCache(p) ==
    /\ procs[p].pc = "cache"
    /\ LET me == procs[p]
       IN CASE me.op = "Set" ->
                 /\ mem' = MemorySet(mem, me.key, me.val, 0, now).store
                 /\ procs' = [procs EXCEPT ![p] =
                        MemProc("done", me.op, me.key, me.val, me.obj, Ok,
                                me.wrote \cup {<<me.key, me.val>>})]
            [] me.op = "Del" ->
                 /\ mem' = MemoryDel(mem, me.key).store
                 /\ procs' = [procs EXCEPT ![p].pc = "done"]
            [] me.op = "Get" ->
                 /\ mem' = mem
                 /\ procs' = [procs EXCEPT ![p] =
                        IF ~CacheFound(mem, me.key, now)
                        THEN MemProc("done", me.op, me.key, NilIface, me.obj,
                                     ErrKeyNotExists, me.wrote)
                        ELSE MemProc("assign", me.op, me.key, mem[me.key].val, me.obj,
                                     Ok, me.wrote)]
    /\ UNCHANGED <<backend, serializer, concreteTypeToName, registeredTypes, rds, now, last>>

\* return c.assignValue(obj, val)
MemAssign(p) ==
    /\ procs[p].pc = "assign"
    /\ LET r == AssignValue(procs[p].obj, procs[p].val)
       IN procs' = [procs EXCEPT ![p].pc = "done", ![p].obj = r.obj, ![p].err = r.err]
    /\ UNCHANGED <<backend, serializer, concreteTypeToName, registeredTypes, mem, rds, now, last>>

\* the call has returned; the goroutine is free for another
MemReturn(p) ==
    /\ procs[p].pc = "done"
    /\ procs' = [procs EXCEPT ![p] =
           MemProc("idle", "none", "k1", NilIface, NoObj, Ok, procs[p].wrote)]
    /\ UNCHANGED <<backend, serializer, concreteTypeToName, registeredTypes, mem, rds, now, last>>

InitMemory ==
    /\ backend = "memory"
    /\ mem = [k \in Keys |-> Absent]
    /\ rds = [k \in Keys |-> RAbsent]
    /\ now = 1
    /\ last = NoCall
    /\ procs = [p \in Procs |-> NoMemProc]
    /\ concreteTypeToName = RegisterBasics
    /\ registeredTypes = {}
    /\ serializer = "gob"

NextMemory ==
    \/ \E p \in Procs, k \in Keys, v \in MemValues : MemCall(p, "Set", k, v, NoObj)
    \/ \E p \in Procs, k \in Keys, o \in MemObjs : MemCall(p, "Get", k, NilIface, o)
    \/ \E p \in Procs, k \in Keys : MemCall(p, "Del", k, NilIface, NoObj)
    \/ \E p \in Procs : MemCache(p)
    \/ \E p \in Procs : MemAssign(p)
    \/ \E p \in Procs : MemReturn(p)

SpecMemory == InitMemory /\ [][NextMemory]_vars

\* some goroutine's Set has stored value under key
SetWrote(key, value) == \E q \in Procs : <<key, value>> \in procs[q].wrote

\* C29: whatever the interleaving of concurrent Set, Get and Del calls of the
\* Memory variant, every Set returns nil, and the destination of every Get
\* that returned nil holds a value that some Set has stored under that key,
\* whole.
C29_ConcurrentSetGetDel ==
    \A p \in Procs :
        procs[p].pc = "done" =>
            /\ (procs[p].op = "Set" => procs[p].err = Ok)
            /\ (procs[p].op = "Get" /\ procs[p].err = Ok
                    => SetWrote(procs[p].key, procs[p].obj.cur))

\* a Get has returned a value that the other goroutine's Set stored, the key
\* has since been given another value or deleted, and the other goroutine is
\* inside a call on the same key
C29_Witness ==
    \E p, q \in Procs :
        /\ p # q
        /\ procs[p].pc = "done" /\ procs[p].op = "Get" /\ procs[p].err = Ok
        /\ <<procs[p].key, procs[p].obj.cur>> \in procs[q].wrote
        /\ (~mem[procs[p].key].present \/ mem[procs[p].key].val # procs[p].obj.cur)
        /\ procs[q].pc # "idle" /\ procs[q].key = procs[p].key

\* what a reader of the key is given
Reads(c, key, t) == IF CacheFound(c, key, t) THEN c[key].val ELSE NilIface

\* a step that is a call of Memory.Del returns nil and leaves the key absent
\* and every other key as it was
DelRemoves ==
    (backend = "memory" /\ Idle /\ last'.op = "Del") =>
        /\ last'.err = Ok
        /\ ~MemoryExists(mem', last'.key, now')
        /\ \A o \in Objs : MemoryGet(mem', last'.key, o, now').err = ErrKeyNotExists
        /\ \A k \in Keys \ {last'.key} : mem'[k] = mem[k]
        /\ (~MemoryExists(mem, last'.key, now)
                => \A k \in Keys : /\ MemoryExists(mem', k, now') = MemoryExists(mem, k, now)
                                   /\ Reads(mem', k, now') = Reads(mem, k, now))

\* a key goes from absent to present only in a Set or a storing GetSet on it
AbsentUntilStored ==
    \A k \in Keys :
        (backend = "memory" /\ ~MemoryExists(mem, k, now) /\ MemoryExists(mem', k, now'))
            => /\ Idle
               /\ last'.op \in {"Set", "GetSet"}
               /\ last'.key = k
               /\ last'.err = Ok
               /\ (last'.op = "GetSet" => last'.lk # Ok /\ last'.cb = 1 /\ last'.cberr = Ok)

\* C30: in the Memory variant Del(k) returns nil and leaves k absent: Exists(k)
\* is false and Get(k) is "key not exists"; no other key is touched, and when k
\* was absent already every key reads as it did before.  A key that is absent
\* stays absent until a Set on it, or a GetSet on it that missed, ran its
\* callback and stored, has returned nil.
C30_DelRemovesUntilStored == [][DelRemoves /\ AbsentUntilStored]_vars

\* Del has just removed a key that was in the store
C30_Witness ==
    /\ backend = "memory"
    /\ last.op = "Del"
    /\ last.err = Ok
    /\ last.changed = {last.key}
    /\ ~MemoryExists(mem, last.key, now)

\* a Set, ExpiresIn or ExpiresAt of the Memory variant has just returned nil
\* with a duration above 0
ExpiryDuration == IF last.op = "ExpiresAt" THEN last.arg - now ELSE last.arg

ExpirySet ==
    /\ backend = "memory"
    /\ last.op \in {"Set", "ExpiresIn", "ExpiresAt"}
    /\ last.err = Ok
    /\ ExpiryDuration > 0

\* Exists and every Get report the key absent
ReportedAbsent(k) ==
    /\ ~MemoryExists(mem, k, now)
    /\ \A o \in Objs : MemoryGet(mem, k, o, now).err = ErrKeyNotExists

\* Exists reports the key present and no Get reports it absent
ReportedPresent(k) ==
    /\ MemoryExists(mem, k, now)
    /\ \A o \in Objs : MemoryGet(mem, k, o, now).err # ErrKeyNotExists

\* C31 as stated: an entry of the Memory variant whose expiry was set with a
\* duration d > 0 is present while less than d has elapsed and is reported
\* absent by Exists and Get once d has elapsed, cleanup or no cleanup.
C31_AsStated ==
    backend = "memory" =>
        \A k \in Keys :
            (mem[k].present /\ mem[k].exp > 0) =>
                IF now < mem[k].exp THEN ReportedPresent(k) ELSE ReportedAbsent(k)

\* C31, amended: the call stores the instant now + d as the entry's expiry; the
\* entry is present up to and including that instant, and is reported absent
\* by Exists and Get once more than d has elapsed, whether or not the cleanup
\* has removed it.
C31_ExpiresAfterDuration ==
    backend = "memory" =>
        /\ (ExpirySet => /\ mem[last.key].present
                         /\ mem[last.key].exp = now + ExpiryDuration)
        /\ \A k \in Keys :
               (mem[k].present /\ mem[k].exp > 0) =>
                   IF now <= mem[k].exp THEN ReportedPresent(k) ELSE ReportedAbsent(k)

\* an entry's duration has run out, the cleanup has not removed it, and it is
\* reported absent
C31_Witness ==
    /\ backend = "memory"
    /\ \E k \in Keys : /\ mem[k].present /\ mem[k].exp > 0 /\ now > mem[k].exp
                       /\ ReportedAbsent(k)

\* Redis.Set with the gob codec has just been given a nil value of a nilable
\* kind
EncodedNilOfNilableKind ==
    /\ backend = "redis" /\ serializer = "gob"
    /\ last.op = "Set"
    /\ last.val # NilIface /\ last.val.isnil
    /\ Kind(last.val.t) \in {"ptr", "slice", "map", "chan", "func"}

\* C32 as stated: the gob codec's Encode emits the nil marker, carrying the
\* value's type name, for a nil value of every nilable kind: pointer, slice,
\* map, channel and function; none goes down the generic encoding path.
C32_AsStated ==
    EncodedNilOfNilableKind =>
        /\ last.err # ErrGobEncode
        /\ Encode(last.val) = Enc(Ok, NilMarkerBytes(last.val.t))

\* C33 as stated: Memory.ExpiresAt(k, t) on a key that is there deletes it
\* whenever the remaining duration t - now is 0 or less, the boundary 0
\* included; the entry is never stored again with such a duration.
C33_AsStated ==
    (/\ backend = "memory"
     /\ last.op = "ExpiresAt"
     /\ last.found
     /\ last.arg - now <= 0)
        => /\ last.err = Ok
           /\ ~mem[last.key].present

\* C34 as stated: in every interleaving of concurrent Encode calls, the type
\* of a non-nil value is registered with gob by the time the value reaches
\* the encoder; no call encodes a type that another call has claimed in
\* registeredTypes and not yet handed to gob.Register.
C34_AsStated ==
    \A p \in Procs :
        (/\ procs[p].pc = "encode"
         /\ procs[p].value # NilIface
         /\ ~EncodesNilMarker(procs[p].value))
            => GobTypeName(concreteTypeToName, procs[p].value) # ""

\* the store step of a GetSet, ExpiresIn or ExpiresAt leaves its own value
\* under the key, whatever the key held when the step ran
OwnStoreWins ==
    \A p \in Procs :
        /\ (/\ procs[p].pc = "rewrite" /\ procs'[p].pc = "done"
            /\ ~(procs[p].op = "ExpiresAt" /\ procs[p].arg - now < 0))
               => /\ mem'[procs[p].key].present
                  /\ mem'[procs[p].key].val = procs[p].val
        /\ (procs[p].pc = "store" /\ procs'[p].pc = "done")
               => /\ procs'[p].err = Ok
                  /\ mem'[procs[p].key].present
                  /\ mem'[procs[p].key].val = StoredValueOf(procs[p].obj)

\* C35: GetSet, ExpiresIn and ExpiresAt are two steps with no lock across
\* them, and the last write wins: when another caller's Set(k, v2) runs
\* between the lookup and the store, the store still runs and the entry of k
\* is then the one it wrote (the callback's value for GetSet, the value
\* fetched before for ExpiresIn and ExpiresAt), not v2.
C35_LastWriteWins == [][OwnStoreWins]_vars

\* an ExpiresIn has fetched a value, another caller's Set has put a different
\* value under the key, and the ExpiresIn has then stored the value it had
\* fetched
C35_Witness ==
    \E p \in Procs :
        /\ ~InGetSet(procs[p])
        /\ procs[p].pc = "done" /\ procs[p].op = "ExpiresIn"
        /\ procs[p].replaced
        /\ mem[procs[p].key].present
        /\ mem[procs[p].key].val = procs[p].val

\* a GetSet has just returned whose lookup failed with an error other than the
\* key's absence
LookupFailed ==
    /\ backend \in {"memory", "redis"}
    /\ last.op = "GetSet"
    /\ last.lk \notin ({Ok} \cup KeyAbsentErrs)

\* the entry under key is what Set(key, v, ttl) called now leaves, for one of
\* the ttls
StoredBySet(key, v) ==
    \E ttl \in TTLs :
        IF backend = "memory"
        THEN mem[key] = MemorySet(mem, key, v, ttl, now).store[key]
        ELSE rds[key] = RedisSet(rds, key, v, ttl, now, FALSE).store[key]

ExpiresInNonPositive ==
    (/\ backend = "memory" /\ Idle
     /\ last'.op = "ExpiresIn"
     /\ last'.found
     /\ last'.arg <= 0)
        => /\ last'.err = Ok
           /\ mem' = CacheSet(mem, last'.key, mem[last'.key].val, last'.arg, now)
           /\ mem'[last'.key].val = mem[last'.key].val
           /\ mem'[last'.key].exp = (IF last'.arg = 0 THEN now + DefaultExpiration ELSE 0)
           /\ MemoryExists(mem', last'.key, now')

\* C37: Memory.ExpiresIn(k, ttl) with ttl <= 0 on an existing key neither
\* deletes nor expires it: it returns nil, stores the same value again with
\* the duration passed on as it is, and Exists(k) is true right after.
C37_NonPositiveKeepsKey == [][ExpiresInNonPositive]_vars

\* ExpiresIn with a negative duration has just returned nil on a key that had
\* an expiry, and the key is there without one
C37_Witness ==
    /\ backend = "memory"
    /\ last.op = "ExpiresIn" /\ last.found /\ last.arg < 0 /\ last.err = Ok
    /\ last.changed = {last.key}
    /\ MemoryExists(mem, last.key, now)
    /\ mem[last.key].exp = 0

\* a step that is a Memory.ExpiresIn or ExpiresAt with an expiry in the
\* future, returning nil: the key keeps its value, gets the new expiry, no
\* other key changes, and every Get that succeeded before gives the same
\* after
ExpiryOnlyChanges ==
    (/\ backend = "memory" /\ Idle
     /\ last'.op \in {"ExpiresIn", "ExpiresAt"}
     /\ last'.err = Ok
     /\ (IF last'.op = "ExpiresAt" THEN last'.arg - now ELSE last'.arg) > 0)
        => /\ mem'[last'.key].present
           /\ mem'[last'.key].val = mem[last'.key].val
           /\ mem'[last'.key].exp =
                  (IF last'.op = "ExpiresAt" THEN last'.arg ELSE now + last'.arg)
           /\ \A k \in Keys \ {last'.key} : mem'[k] = mem[k]
           /\ \A o \in Objs :
                  MemoryGet(mem, last'.key, o, now).err = Ok
                      => MemoryGet(mem', last'.key, o, now') = MemoryGet(mem, last'.key, o, now)

\* C38: in the Memory variant a successful ExpiresIn(k, ttl) or
\* ExpiresAt(k, t) with a future expiry changes only k's expiry: the value and
\* type under k are the same before and after, and a Get(k, dest) that
\* succeeded before succeeds after with the same result.
C38_OnlyExpiryChanges == [][ExpiryOnlyChanges]_vars

\* ExpiresAt with a future instant has just given a new expiry to a key whose
\* value a Get delivers
C38_Witness ==
    /\ backend = "memory"
    /\ last.op = "ExpiresAt" /\ last.err = Ok /\ last.arg > now
    /\ last.changed = {last.key}
    /\ mem[last.key].exp = last.arg
    /\ \E o \in Objs : MemoryGet(mem, last.key, o, now).err = Ok

\* a step that is a call of the Memory variant on a key leaves the entry of
\* every other key as it was, and Exists and Get leave every entry as it was
OtherKeysUntouched ==
    (backend = "memory" /\ Idle /\ last'.op # "none")
        => /\ \A k \in Keys \ {last'.key} : mem'[k] = mem[k]
           /\ (last'.op \in {"Exists", "Get"} => mem' = mem)

\* C39: key isolation in the Memory variant: Set, Get, GetSet, Del, ExpiresIn,
\* ExpiresAt and Exists on key k leave the presence, value and expiry of every
\* other key unchanged, and Exists and Get change no entry at all.
C39_KeyIsolation == [][OtherKeysUntouched]_vars

\* a call has just changed the entry of its key while the other key holds an
\* entry
C39_Witness ==
    /\ backend = "memory"
    /\ last.op \in {"Set", "GetSet", "Del", "ExpiresIn", "ExpiresAt"}
    /\ last.changed = {last.key}
    /\ \E k \in Keys \ {last.key} : mem[k].present

\* a step that is a Memory.Get returning an error leaves the destination
\* holding what it held and the store as it was
FailedGetTouchesNothing ==
    (backend = "memory" /\ Idle /\ last'.op = "Get" /\ last'.err # Ok)
        => /\ last'.err \in {ErrKeyNotExists, ErrTypeMismatch, ErrNilAssign,
                             ErrObjNil, ErrObjNotPtr, ErrObjCannotSet}
           /\ last'.obj = last'.obj0
           /\ mem' = mem

\* C40: a failed Memory.Get leaves the destination untouched: when Get returns
\* key-not-found, type-mismatch, nil-assignment or invalid-destination, the
\* destination holds the value it held before the call, and the cache entry is
\* unchanged too.
C40_FailedGetLeavesDest == [][FailedGetTouchesNothing]_vars

\* a Get has just failed on the stored value's type, for a destination that
\* held a value
C40_Witness ==
    /\ backend = "memory"
    /\ last.op = "Get" /\ last.err = ErrTypeMismatch
    /\ last.obj0.form = "ptr"
    /\ last.obj = last.obj0
    /\ MemoryExists(mem, last.key, now)
    /\ mem[last.key].val # last.obj.cur

============================================================================
